---- MODULE Spec2Model ----
(***************************************************************************)
(* Project Manager Assistant: the Streamlit script src/src/app.py and its  *)
(* LLM gateway src/src/agent.py, as a state machine.                       *)
(*                                                                         *)
(* One action is one user interaction: Streamlit reruns the script from    *)
(* the top, the widget that was used returns its value, its handler runs,  *)
(* and the page is rendered again.  A widget can only be used when the     *)
(* script reaches it, so each action is guarded by the conditions under    *)
(* which the script gets to the widget without raising.  The sidebar is    *)
(* rendered before any tab, so every tab can always be opened; the active  *)
(* tab, the theme and the employee selected on the read-only Employees tab *)
(* are display state that no handler of the model reads, and are left out. *)
(*                                                                         *)
(* Python values are tagged records ([type, val]) so that the code's       *)
(* isinstance tests, dict lookups and None comparisons are what they are   *)
(* in Python.  JSON text is a sequence of tokens: json.dump writes it and  *)
(* json.load parses it.                                                    *)
(***************************************************************************)
EXTENDS Integers, Sequences, FiniteSets, TLC

(***************************************************************************)
(* Python values                                                           *)
(***************************************************************************)
PyNone == [type |-> "NoneType"]
PyStr(s) == [type |-> "str", val |-> s]
PyInt(n) == [type |-> "int", val |-> n]
PyList(s) == [type |-> "list", val |-> s]
PyDict(r) == [type |-> "dict", val |-> r]

isinstance(x, t) == x.type = t

\* bool(x): None, "", 0, [] and {} are false.
Truthy(x) ==
    CASE x.type = "NoneType" -> FALSE
      [] x.type = "str" -> x.val /= ""
      [] x.type = "int" -> x.val /= 0
      [] x.type = "list" -> Len(x.val) > 0
      [] x.type = "dict" -> DOMAIN x.val /= {}

\* k in d
HasKey(d, k) == k \in DOMAIN d.val

\* d.get(k, default)
DictGet(d, k, default) == IF k \in DOMAIN d.val THEN d.val[k] ELSE default

\* An update in which the keys d already has are kept
DictKeepOld(d, e) == PyDict(d.val @@ e.val)

\* d.update(e) / {**d, **e}: the keys of e win.
DictUpdate(d, e) == PyDict(e.val @@ d.val)

\* d[k] = v
DictSet(d, k, v) == PyDict((k :> v) @@ d.val)

\* What a call comes to: it raises the exception named, or returns a value.
Raise(exc) == [raised |-> exc]
Return(v) == [raised |-> "", value |-> v]

(***************************************************************************)
(* JSON text: json.dump / json.load                                        *)
(***************************************************************************)
Tok(k) == [tok |-> k]
TokString(s) == [tok |-> "string", text |-> s]
TokNumber(n) == [tok |-> "number", num |-> n]

\* The keys the model's dicts can hold, in the order json.dump writes them.
KeyOrder ==
    << "id", "title", "description", "team", "proposed_budget", "status",
       "tasks", "user_budget", "assignee_id", "due_date",
       "name", "skills", "experience", "salary_grade" >>

\* A writer that leaves the due dates out
DictKeysNoDueDate(r) == SelectSeq(KeyOrder, LAMBDA k : k \in DOMAIN r /\ k /= "due_date")

DictKeys(r) == SelectSeq(KeyOrder, LAMBDA k : k \in DOMAIN r)

RECURSIVE json_dumps(_), DumpItems(_), DumpMembers(_, _)
json_dumps(v) ==
    CASE v.type = "NoneType" -> << Tok("null") >>
      [] v.type = "str" -> << TokString(v.val) >>
      [] v.type = "int" -> << TokNumber(v.val) >>
      [] v.type = "list" -> << Tok("[") >> \o DumpItems(v.val) \o << Tok("]") >>
      [] v.type = "dict" ->
            << Tok("{") >> \o DumpMembers(v.val, DictKeys(v.val)) \o << Tok("}") >>

DumpItems(s) ==
    IF s = <<>> THEN <<>>
    ELSE json_dumps(Head(s))
         \o (IF Tail(s) = <<>> THEN <<>> ELSE << Tok(",") >> \o DumpItems(Tail(s)))

DumpMembers(r, keys) ==
    IF keys = <<>> THEN <<>>
    ELSE << TokString(Head(keys)), Tok(":") >> \o json_dumps(r[Head(keys)])
         \o (IF Tail(keys) = <<>> THEN <<>>
             ELSE << Tok(",") >> \o DumpMembers(r, Tail(keys)))

\* The recursive-descent parser of json.load.  A result is [ok, val, next]:
\* the value read and the index of the first token after it.
ParseFail == [ok |-> FALSE]
Parsed(v, n) == [ok |-> TRUE, val |-> v, next |-> n]

RECURSIVE ParseValue(_, _), ParseItems(_, _, _), ParseMembers(_, _, _)
ParseValue(toks, i) ==
    IF i > Len(toks) THEN ParseFail
    ELSE LET t == toks[i] IN
         CASE t.tok = "null" -> Parsed(PyNone, i + 1)
           [] t.tok = "string" -> Parsed(PyStr(t.text), i + 1)
           [] t.tok = "number" -> Parsed(PyInt(t.num), i + 1)
           [] t.tok = "[" ->
                IF i + 1 <= Len(toks) /\ toks[i + 1].tok = "]"
                THEN Parsed(PyList(<<>>), i + 2)
                ELSE ParseItems(toks, i + 1, <<>>)
           [] t.tok = "{" ->
                IF i + 1 <= Len(toks) /\ toks[i + 1].tok = "}"
                THEN Parsed(PyDict(<<>>), i + 2)
                ELSE ParseMembers(toks, i + 1, <<>>)
           [] OTHER -> ParseFail

ParseItems(toks, i, acc) ==
    LET r == ParseValue(toks, i) IN
    IF ~r.ok \/ r.next > Len(toks) THEN ParseFail
    ELSE IF toks[r.next].tok = "," THEN ParseItems(toks, r.next + 1, Append(acc, r.val))
    ELSE IF toks[r.next].tok = "]" THEN Parsed(PyList(Append(acc, r.val)), r.next + 1)
    ELSE ParseFail

ParseMembers(toks, i, acc) ==
    IF i + 1 > Len(toks) \/ toks[i].tok /= "string" \/ toks[i + 1].tok /= ":"
    THEN ParseFail
    ELSE LET r == ParseValue(toks, i + 2) IN
         IF ~r.ok \/ r.next > Len(toks) THEN ParseFail
         ELSE LET acc2 == (toks[i].text :> r.val) @@ acc IN
              IF toks[r.next].tok = "," THEN ParseMembers(toks, r.next + 1, acc2)
              ELSE IF toks[r.next].tok = "}" THEN Parsed(PyDict(acc2), r.next + 1)
              ELSE ParseFail

\* json.loads: [ok |-> TRUE, val |-> v], or [ok |-> FALSE] for JSONDecodeError
\* (no value, or extra data after it).
json_loads(toks) ==
    LET r == ParseValue(toks, 1) IN
    IF r.ok /\ r.next = Len(toks) + 1 THEN [ok |-> TRUE, val |-> r.val]
    ELSE [ok |-> FALSE]

(***************************************************************************)
(* State                                                                   *)
(***************************************************************************)
VARIABLES
    API_KEY,              \* agent.API_KEY: the key, or None when no secret is set
    employees,            \* st.session_state.employees
    projects,             \* st.session_state.projects
    draft_project,        \* st.session_state.draft_project
    selected_project_id,  \* st.session_state.selected_project_id
    file,                 \* data/project_data.json: [exists, content]
    uuid_count,           \* how many uuid.uuid4() values have been drawn
    last,                 \* what the last script run reported: [error, posted, roster]
    view,                 \* what the draft view of the New Project tab shows
    peer                  \* the other session of the same server, when there is one

vars ==
    << API_KEY, employees, projects, draft_project, selected_project_id, file,
       uuid_count, last, view, peer >>

(***************************************************************************)
(* The data the model runs on                                              *)
(***************************************************************************)
\* str(uuid.uuid4()): the n-th value drawn; all values are distinct.
uuid4(n) == PyStr("uuid-" \o ToString(n))

\* data/employees.json
Employee(id, name, grade) ==
    PyDict([id |-> PyStr(id), name |-> PyStr(name), skills |-> PyStr("Python"),
            experience |-> PyInt(5), salary_grade |-> PyStr(grade)])

\* The id of the n-th employee
EmpId(n) == PyStr("emp_" \o ToString(n))

\* A roster with every grade of the salary table, and one grade the table
\* does not have
GradeRoster ==
    PyList(<< Employee("emp_1", "Asha", "A"), Employee("emp_2", "Ravi", "A"),
              Employee("emp_3", "Chen", "B"), Employee("emp_4", "Dana", "C"),
              Employee("emp_5", "Eli", "D"), Employee("emp_6", "Femi", "E"),
              Employee("emp_7", "Gus", "Z") >>)

\* Its first three employees
Roster == PyList(SubSeq(GradeRoster.val, 1, 3))

\* An id no employee of the rosters has.
GhostId == PyStr("emp_9")

(***************************************************************************)
(* app.py: persistence                                                     *)
(***************************************************************************)
NoFile == [exists |-> FALSE, content |-> <<>>]

\* save_project_data(data): open(PROJECT_DATA_FILE, 'w'); json.dump(data, f)
save_project_data(data) == [exists |-> TRUE, content |-> json_dumps(data)]

\* A byte sequence that is not the UTF-8 encoding of any text
BadBytes == Tok("\\xff")

\* f.read() of a file opened with open(path, 'r'): the text of the file in
\* the platform's encoding (UTF-8), or UnicodeDecodeError when its bytes
\* are not text.
read(f) ==
    IF \E i \in 1..Len(f.content) : f.content[i].tok = BadBytes.tok
    THEN Raise("UnicodeDecodeError")
    ELSE Return(f.content)

\* load_project_data(): only json.JSONDecodeError is caught.
load_project_data(f) ==
    IF f.exists
    THEN LET text == read(f) IN
         IF text.raised /= "" THEN text
         ELSE LET r == json_loads(text.value) IN
              IF r.ok THEN Return(r.val) ELSE Return(PyList(<<>>))
    ELSE Return(PyList(<<>>))

(***************************************************************************)
(* app.py: helper functions                                                *)
(***************************************************************************)
SALARY_GRADES ==
    ("A" :> 3500) @@ ("B" :> 3000) @@ ("C" :> 2500) @@ ("D" :> 2200) @@ ("E" :> 2000)

\* item.get('id') if isinstance(item, dict) else item
item_id(item) == IF isinstance(item, "dict") THEN DictGet(item, "id", PyNone) ELSE item

\* [item_id(item) for item in proj.get("team", [])]
team_ids(proj) ==
    LET team == DictGet(proj, "team", PyList(<<>>)).val IN
    [j \in 1..Len(team) |-> item_id(team[j])]

\* get_employee_project_count(): for each roster id, the number of team
\* entries, over the projects of the list, that name it.
RECURSIVE CountEntries(_, _)
CountEntries(eid, n) ==
    IF n = 0 THEN 0
    ELSE LET ids == team_ids(projects.val[n]) IN
         CountEntries(eid, n - 1) + Cardinality({j \in 1..Len(ids) : ids[j] = eid})

get_employee_project_count ==
    [eid \in {employees.val[n].val.id : n \in 1..Len(employees.val)} |->
        CountEntries(eid, Len(projects.val))]

\* get_employee_map()
get_employee_map ==
    [eid \in {employees.val[n].val.id : n \in 1..Len(employees.val)} |->
        LET n == CHOOSE m \in 1..Len(employees.val) :
                    /\ employees.val[m].val.id = eid
                    /\ \A m2 \in (m + 1)..Len(employees.val) : employees.val[m2].val.id /= eid
        IN employees.val[n]]

\* emp_map.get(eid, default)
EmpGet(eid, default) ==
    IF eid \in DOMAIN get_employee_map THEN get_employee_map[eid] ELSE default

\* A filter that lets an employee of two teams through
eligible_up_to_two ==
    SelectSeq(employees.val, LAMBDA e : get_employee_project_count[e.val.id] <= 2)

\* A filter that lets every employee through
eligible_everyone == employees.val

\* [e for e in st.session_state.employees if emp_counts.get(e["id"], 0) < 2]
eligible_employees ==
    SelectSeq(employees.val, LAMBDA e : get_employee_project_count[e.val.id] < 2)

\* A lookup that prices a grade the table does not have at the lowest salary
SalaryOfListed(grade) ==
    IF isinstance(grade, "str") /\ grade.val \in DOMAIN SALARY_GRADES
    THEN SALARY_GRADES[grade.val]
    ELSE 2000

\* SALARY_GRADES.get(grade, 0)
SalaryOf(grade) ==
    IF isinstance(grade, "str") /\ grade.val \in DOMAIN SALARY_GRADES
    THEN SALARY_GRADES[grade.val]
    ELSE 0

\* sum(SALARY_GRADES.get(emp_map.get(eid, {}).get("salary_grade"), 0) for eid in team_ids)
RECURSIVE SumSalaries(_)
SumSalaries(ids) ==
    IF ids = <<>> THEN 0
    ELSE SalaryOf(DictGet(EmpGet(Head(ids), PyDict(<<>>)), "salary_grade", PyNone))
         + SumSalaries(Tail(ids))

team_cost(draft) == SumSalaries(team_ids(draft))

\* A classification whose "nearing" band leaves out the 90% mark
classify_open(cost, target_budget) ==
    IF cost * 100 > 100 * target_budget THEN "Over Budget"
    ELSE IF 90 * target_budget < cost * 100 THEN "Nearing Budget"
    ELSE "Within Budget"

\* The message of the draft view for percentage = (team_cost / target_budget) * 100.
\* The comparisons are made on the exact quotient; the float percentage
\* compares with 90 and with 100 as the exact one does while
\* target_budget < 10^14.
classify(cost, target_budget) ==
    IF cost * 100 > 100 * target_budget THEN "Over Budget"
    ELSE IF 90 * target_budget <= cost * 100 /\ cost * 100 <= 100 * target_budget
         THEN "Nearing Budget"
    ELSE "Within Budget"

\* The draft view of the New Project tab: nothing when there is no draft,
\* the exception that ends the script, or the team cost and the message.
\* percentage = (team_cost / target_budget) * 100 is computed in doubles:
\* the quotient is rounded, and so is its product with 100.  For the costs
\* of teams of up to four employees and the budgets up to 30000, these are
\* the pairs (team_cost, target_budget) for which the product is below the
\* whole number that 100 * team_cost / target_budget is (5700 / 10000 * 100
\* is 56.99999999999999); for every other pair of that range the double has
\* the integer part of the exact quotient.
ProductRoundsBelow ==
    { << 5700, 10000 >>, << 8700, 15000 >>, << 8700, 30000 >>, << 11400, 20000 >> }

\* The bar is not drawn.
NoBar == -1

\* int(min(percentage, 100)), the argument of st.progress (app.py 201, 212)
progress_value(cost, target_budget) ==
    LET exact == (100 * cost) \div target_budget IN
    IF 100 * cost > 100 * target_budget THEN 100
    ELSE IF << cost, target_budget >> \in ProductRoundsBelow THEN exact - 1
    ELSE exact

DraftView(draft) ==
    IF ~Truthy(draft)
    THEN [state |-> "none", team_cost |-> 0, message |-> "", progress |-> NoBar]
    ELSE IF ~HasKey(draft, "title") \/ ~HasKey(draft, "description")
         THEN [state |-> "KeyError", team_cost |-> 0, message |-> "", progress |-> NoBar]
    ELSE LET target_budget == DictGet(draft, "user_budget", PyInt(0)).val
             cost == team_cost(draft) IN
         [state |-> "draft", team_cost |-> cost,
          message |-> IF target_budget > 0 THEN classify(cost, target_budget) ELSE "",
          progress |-> IF target_budget > 0 THEN progress_value(cost, target_budget)
                       ELSE NoBar]

(***************************************************************************)
(* agent.py: the LLM gateway                                               *)
(***************************************************************************)
\* What one POST to the endpoint comes to: requests raises (connection
\* error, timeout, HTTP error status, body that is not JSON), or the body
\* holds the candidates' texts, each a JSON text or not.
HttpError == [status |-> "RequestException", candidates |-> <<>>]
HttpOk(texts) == [status |-> "ok", candidates |-> texts]

\* A reading of the answer that takes a text that is not JSON for an empty list
FirstCandidateOrEmpty(resp) ==
    IF resp.status /= "ok" THEN Raise("ValueError")
    ELSE IF resp.candidates = <<>> THEN Raise("ValueError")
    ELSE LET r == json_loads(resp.candidates[1]) IN
         IF r.ok THEN Return(r.val) ELSE Return(PyList(<<>>))

\* The text of the first candidate: data["candidates"][0]...["text"], then
\* json.loads.  Every exception of the try block becomes a ValueError.
FirstCandidateJson(resp) ==
    IF resp.status /= "ok" THEN Raise("ValueError")
    ELSE IF resp.candidates = <<>> THEN Raise("ValueError")
    ELSE LET r == json_loads(resp.candidates[1]) IN
         IF r.ok THEN Return(r.val) ELSE Raise("ValueError")

\* A generate_project that does not look at the key
generate_project_unchecked(brief, eligible, user_budget, resp) ==
    FirstCandidateJson(resp)

generate_project(brief, eligible, user_budget, resp) ==
    IF ~Truthy(API_KEY) THEN Raise("ValueError")
    ELSE FirstCandidateJson(resp)

\* A modify_tasks_with_llm that takes an empty list for no answer
modify_tasks_nonempty(current_tasks, project_team, command, resp) ==
    IF ~Truthy(API_KEY) THEN Raise("ValueError")
    ELSE LET r == FirstCandidateJson(resp) IN
         IF r.raised /= "" THEN r
         ELSE LET modified_list == r.value IN
              IF /\ isinstance(modified_list, "list")
                 /\ Truthy(modified_list)
                 /\ isinstance(modified_list.val[1], "dict")
                 /\ HasKey(modified_list.val[1], "id")
              THEN Return(modified_list)
              ELSE Raise("ValueError")

\* A modify_tasks_with_llm whose result is the current tasks followed by
\* the returned ones
modify_tasks_appending(current_tasks, project_team, command, resp) ==
    IF ~Truthy(API_KEY) THEN Raise("ValueError")
    ELSE LET r == FirstCandidateJson(resp) IN
         IF r.raised /= "" THEN r
         ELSE LET modified_list == r.value IN
              IF /\ isinstance(modified_list, "list")
                 /\ \/ ~Truthy(modified_list)
                    \/ /\ isinstance(modified_list.val[1], "dict")
                       /\ HasKey(modified_list.val[1], "id")
              THEN Return(PyList(current_tasks.val \o modified_list.val))
              ELSE Raise("ValueError")

modify_tasks_with_llm(current_tasks, project_team, command, resp) ==
    IF ~Truthy(API_KEY) THEN Raise("ValueError")
    ELSE LET r == FirstCandidateJson(resp) IN
         IF r.raised /= "" THEN r
         ELSE LET modified_list == r.value IN
              IF /\ isinstance(modified_list, "list")
                 /\ \/ ~Truthy(modified_list)
                    \/ /\ isinstance(modified_list.val[1], "dict")
                       /\ HasKey(modified_list.val[1], "id")
              THEN Return(modified_list)
              ELSE Raise("ValueError")

generate_and_assign_tasks(project_title, project_description, current_tasks, project_team, resp) ==
    IF ~Truthy(API_KEY) THEN Raise("ValueError")
    ELSE LET r == FirstCandidateJson(resp) IN
         IF r.raised /= "" THEN r
         ELSE LET new_tasks == r.value IN
              IF /\ isinstance(new_tasks, "list")
                 /\ \A n \in 1..Len(new_tasks.val) :
                        /\ isinstance(new_tasks.val[n], "dict")
                        /\ HasKey(new_tasks.val[n], "description")
                        /\ HasKey(new_tasks.val[n], "assignee_id")
              THEN Return(new_tasks)
              ELSE Raise("ValueError")

(***************************************************************************)
(* app.py: what the script reaches when it renders the Projects tab        *)
(***************************************************************************)
TaskStatuses == {"To Do", "In Progress", "Completed"}

\* The master column and the project selectbox read proj['title'] and
\* proj['id'] of every project, and key one widget by each id.
ProjectListRenders ==
    /\ Truthy(projects)
    /\ \A i \in 1..Len(projects.val) :
          /\ isinstance(projects.val[i], "dict")
          /\ HasKey(projects.val[i], "id")
          /\ HasKey(projects.val[i], "title")
    /\ \A i, j \in 1..Len(projects.val) :
          projects.val[i].val.id = projects.val[j].val.id => i = j

\* The Assistant tab builds {p['id']: p['title'] for p in projects}.
AssistantRenders ==
    /\ Truthy(projects)
    /\ \A i \in 1..Len(projects.val) :
          /\ isinstance(projects.val[i], "dict")
          /\ HasKey(projects.val[i], "id")
          /\ HasKey(projects.val[i], "title")

\* proj_idx = next((i for i, p in enumerate(projects) if p['id'] == selected_project_id), None)
\* (0 for None)
proj_idx ==
    IF \E i \in 1..Len(projects.val) : projects.val[i].val.id = selected_project_id
    THEN CHOOSE i \in 1..Len(projects.val) :
            /\ projects.val[i].val.id = selected_project_id
            /\ \A j \in 1..(i - 1) : projects.val[j].val.id /= selected_project_id
    ELSE 0

\* The detail pane of the selected project is rendered.
DetailShown ==
    /\ ProjectListRenders
    /\ Truthy(selected_project_id)
    /\ proj_idx /= 0

\* proj.get('tasks', []) of a project
TasksOf(proj) == DictGet(proj, "tasks", PyList(<<>>)).val

\* [t for t in proj.get('tasks', []) if t['status'] == ...] raises on a task
\* that is no dict or has no status, before any card is rendered.
BoardFilterOK(tasks) ==
    \A k \in 1..Len(tasks) : isinstance(tasks[k], "dict") /\ HasKey(tasks[k], "status")

\* The tasks in the order their cards are rendered: the To Do column, then
\* In Progress, then Completed; a task with any other status has no card.
ColumnOf(tasks, status) ==
    SelectSeq([k \in 1..Len(tasks) |-> k], LAMBDA k : tasks[k].val.status = PyStr(status))

RenderOrder(tasks) ==
    ColumnOf(tasks, "To Do") \o ColumnOf(tasks, "In Progress") \o ColumnOf(tasks, "Completed")

\* datetime.strptime(task['due_date'], '%Y-%m-%d') succeeds on these.
Dates == {"2025-08-01"}

\* The head of a card: the assignee's name, the due date, the description,
\* and task['id'] in the key of the status button.
CardHeadOK(task) ==
    /\ IF Truthy(DictGet(task, "due_date", PyNone))
       THEN isinstance(task.val.due_date, "str") /\ task.val.due_date.val \in Dates
       ELSE TRUE
    /\ HasKey(task, "description")
    /\ HasKey(task, "id")

\* A widget key is used twice (DuplicateWidgetID): the status button of a
\* card whose id and status an earlier card has, and the selectbox of a card
\* whose id an earlier card has.
TaskId(task) == DictGet(task, "id", PyNone)

SameButtonKey(tasks, order, n) ==
    \E m \in 1..(n - 1) :
        /\ TaskId(tasks[order[m]]) = TaskId(tasks[order[n]])
        /\ tasks[order[m]].val.status = tasks[order[n]].val.status

SameCardKey(tasks, order, n) ==
    \E m \in 1..(n - 1) : TaskId(tasks[order[m]]) = TaskId(tasks[order[n]])

\* The card at position n of the render order is rendered to its end.
CardRenders(tasks, order, n) ==
    CardHeadOK(tasks[order[n]]) /\ ~SameCardKey(tasks, order, n)

\* The script reaches the status buttons of the card of task k.
StatusButtonsReached(tasks, k) ==
    /\ BoardFilterOK(tasks)
    /\ LET order == RenderOrder(tasks) IN
       \E n \in 1..Len(order) :
          /\ order[n] = k
          /\ \A m \in 1..(n - 1) : CardRenders(tasks, order, m)
          /\ CardHeadOK(tasks[k])
          /\ ~SameButtonKey(tasks, order, n)

\* The script reaches the widgets of the card's "Edit / Delete" expander.
ExpanderReached(tasks, k) ==
    /\ StatusButtonsReached(tasks, k)
    /\ LET order == RenderOrder(tasks) IN
       \A n \in 1..Len(order) : order[n] = k => ~SameCardKey(tasks, order, n)

\* The script reaches "Project Settings": every card was rendered, and the
\* multiselect accepts its default (st.multiselect raises when a default
\* value is not one of its options, the roster's ids).
SettingsReached(proj) ==
    LET tasks == TasksOf(proj)
        order == RenderOrder(tasks) IN
    /\ BoardFilterOK(tasks)
    /\ \A n \in 1..Len(order) : CardRenders(tasks, order, n)
    /\ \A j \in 1..Len(team_ids(proj)) : team_ids(proj)[j] \in DOMAIN get_employee_map

\* Every employee of the roster, whatever the team
roster_details(proj) == employees

\* [emp_map[eid] for eid in team_ids if eid in emp_map]
team_details(proj) ==
    LET ids == SelectSeq(team_ids(proj), LAMBDA eid : eid \in DOMAIN get_employee_map) IN
    PyList([j \in 1..Len(ids) |-> get_employee_map[ids[j]]])

(***************************************************************************)
(* app.py: the handlers                                                    *)
(***************************************************************************)
\* What a script run reports: the text of st.error ("" when none), whether
\* a request was POSTed, and the roster put in the prompt of
\* generate_project (None when it was not called).
Ran(error, posted, roster) == [error |-> error, posted |-> posted, roster |-> roster]

\* After the handler the page is rendered from the new state.
Render == view' = DraftView(draft_project')

\* brief.strip() of the briefs the model enters
strip(brief) == IF brief = "  " THEN "" ELSE brief

\* "Generate Project Draft" (app.py 175-187)
GenerateProjectDraft(brief, user_budget, resp) ==
    /\ IF strip(brief) = ""
       THEN /\ last' = Ran("", FALSE, PyNone)
            /\ UNCHANGED << draft_project, uuid_count >>
       ELSE LET eligible == eligible_employees IN
            IF Len(eligible) = 0
            THEN /\ last' = Ran("No employees are available.", FALSE, PyNone)
                 /\ UNCHANGED << draft_project, uuid_count >>
            ELSE LET r == generate_project(brief, eligible, user_budget, resp)
                     posted == Truthy(API_KEY) IN
                 IF r.raised /= "" \/ ~isinstance(r.value, "dict")
                 THEN /\ last' = Ran("Failed to generate project",
                                     posted, PyList(eligible))
                      /\ UNCHANGED << draft_project, uuid_count >>
                 ELSE /\ uuid_count' = uuid_count + 1
                      /\ draft_project' =
                            DictUpdate(r.value,
                                PyDict([id |-> uuid4(uuid_count'),
                                        status |-> PyStr("pending"),
                                        tasks |-> PyList(<<>>),
                                        user_budget |-> PyInt(user_budget)]))
                      /\ last' = Ran("", posted, PyList(eligible))
    /\ UNCHANGED << peer, API_KEY, employees, projects, selected_project_id, file >>
    /\ Render

\* An Approve Project that leaves the draft on the New Project tab
ApproveKeepingDraft ==
    /\ DraftView(draft_project).state = "draft"
    /\ projects' = PyList(Append(projects.val,
                                 DictSet(draft_project, "status", PyStr("approved"))))
    /\ file' = save_project_data(projects')
    /\ last' = Ran("", FALSE, PyNone)
    /\ UNCHANGED << peer, API_KEY, employees, selected_project_id, uuid_count, draft_project >>
    /\ Render

\* "Approve Project" (app.py 216-222)
ApproveProject ==
    /\ DraftView(draft_project).state = "draft"
    /\ projects' = PyList(Append(projects.val,
                                 DictSet(draft_project, "status", PyStr("approved"))))
    /\ file' = save_project_data(projects')
    /\ draft_project' = PyNone
    /\ last' = Ran("", FALSE, PyNone)
    /\ UNCHANGED << peer, API_KEY, employees, selected_project_id, uuid_count >>
    /\ Render

\* "Discard Draft" (app.py 224-225)
DiscardDraft ==
    /\ DraftView(draft_project).state = "draft"
    /\ draft_project' = PyNone
    /\ last' = Ran("", FALSE, PyNone)
    /\ UNCHANGED << peer, API_KEY, employees, projects, selected_project_id, file, uuid_count >>
    /\ Render

\* A button of the master column (app.py 236-238)
SelectProject(i) ==
    /\ ProjectListRenders
    /\ i \in 1..Len(projects.val)
    /\ selected_project_id' = projects.val[i].val.id
    /\ last' = Ran("", FALSE, PyNone)
    /\ UNCHANGED << peer, API_KEY, employees, projects, draft_project, file, uuid_count >>
    /\ Render

\* "Close" (app.py 249-250)
CloseProject ==
    /\ DetailShown
    /\ selected_project_id' = PyNone
    /\ last' = Ran("", FALSE, PyNone)
    /\ UNCHANGED << peer, API_KEY, employees, projects, draft_project, file, uuid_count >>
    /\ Render

\* projects with the tasks of project i replaced
WithTasks(i, tasks) ==
    PyList([projects.val EXCEPT ![i] = DictSet(@, "tasks", PyList(tasks))])

\* The tasks for the returned items, the last item first
NewTasksReversed(items, n0) ==
    [n \in 1..Len(items) |->
        PyDict([id |-> uuid4(n0 + n),
                description |-> items[Len(items) + 1 - n].val.description,
                status |-> PyStr("To Do"),
                assignee_id |-> items[Len(items) + 1 - n].val.assignee_id,
                due_date |-> PyNone])]

\* The tasks "Suggest & Auto-Assign Tasks" appends for the returned items,
\* the first with the (n0 + 1)-th uuid (app.py 268-270).
NewTasks(items, n0) ==
    [n \in 1..Len(items) |->
        PyDict([id |-> uuid4(n0 + n),
                description |-> items[n].val.description,
                status |-> PyStr("To Do"),
                assignee_id |-> items[n].val.assignee_id,
                due_date |-> PyNone])]

\* "Suggest & Auto-Assign Tasks" (app.py 255-274)
SuggestTasks(resp) ==
    /\ DetailShown
    /\ LET proj == projects.val[proj_idx]
           current_tasks == DictGet(proj, "tasks", PyList(<<>>))
           r == generate_and_assign_tasks(proj.val.title,
                    DictGet(proj, "description", PyStr("")), current_tasks,
                    team_details(proj), resp)
           posted == Truthy(API_KEY) IN
       IF r.raised /= ""
       THEN /\ last' = Ran("Failed to get suggestions", posted, PyNone)
            /\ UNCHANGED << projects, file, uuid_count >>
       ELSE IF ~Truthy(r.value)
       THEN /\ last' = Ran("", posted, PyNone)
            /\ UNCHANGED << projects, file, uuid_count >>
       ELSE /\ uuid_count' = uuid_count + Len(r.value.val)
            /\ projects' = WithTasks(proj_idx,
                              proj.val.tasks.val \o NewTasks(r.value.val, uuid_count))
            /\ file' = save_project_data(projects')
            /\ last' = Ran("", posted, PyNone)
    /\ UNCHANGED << peer, API_KEY, employees, draft_project, selected_project_id >>
    /\ Render

\* projects with field key of task k of project i set to value
WithTaskField(i, k, key, value) ==
    WithTasks(i, [TasksOf(projects.val[i]) EXCEPT ![k] = DictSet(@, key, value)])

\* The status buttons of a task card (app.py 289-300): the status each
\* button of a card sets, by the status the card shows.
ButtonTarget(status, button) ==
    CASE status = "To Do" /\ button = "Start Progress" -> "In Progress"
      [] status = "In Progress" /\ button = "Send Back" -> "To Do"
      [] status = "In Progress" /\ button = "Complete" -> "Completed"
      [] status = "Completed" /\ button = "Re-open Task" -> "To Do"
      [] OTHER -> ""

Buttons == {"Start Progress", "Send Back", "Complete", "Re-open Task"}

TaskStatusButton(k, button) ==
    /\ DetailShown
    /\ LET tasks == TasksOf(projects.val[proj_idx]) IN
       /\ k \in 1..Len(tasks)
       /\ StatusButtonsReached(tasks, k)
       /\ ButtonTarget(tasks[k].val.status.val, button) /= ""
       /\ projects' = WithTaskField(proj_idx, k, "status",
                         PyStr(ButtonTarget(tasks[k].val.status.val, button)))
    /\ file' = save_project_data(projects')
    /\ last' = Ran("", FALSE, PyNone)
    /\ UNCHANGED << peer, API_KEY, employees, draft_project, selected_project_id, uuid_count >>
    /\ Render

\* The options of the "Assign to:" selectbox (app.py 302-304)
assignee_options(proj) ==
    {team_details(proj).val[j].val.id : j \in 1..Len(team_details(proj).val)}
        \cup {PyStr("unassigned")}

\* current_assignee_id (app.py 305-306)
current_assignee_id(proj, task) ==
    LET cur == DictGet(task, "assignee_id", PyStr("unassigned")) IN
    IF cur \in assignee_options(proj) THEN cur ELSE PyStr("unassigned")

\* "Assign to:" (app.py 307-309)
AssignTask(k, new_assignee_id) ==
    /\ DetailShown
    /\ LET proj == projects.val[proj_idx]
           tasks == TasksOf(proj) IN
       /\ k \in 1..Len(tasks)
       /\ ExpanderReached(tasks, k)
       /\ new_assignee_id \in assignee_options(proj)
       /\ new_assignee_id /= current_assignee_id(proj, tasks[k])
       /\ projects' = WithTaskField(proj_idx, k, "assignee_id",
                         IF new_assignee_id /= PyStr("unassigned")
                         THEN new_assignee_id ELSE PyNone)
    /\ file' = save_project_data(projects')
    /\ last' = Ran("", FALSE, PyNone)
    /\ UNCHANGED << peer, API_KEY, employees, draft_project, selected_project_id, uuid_count >>
    /\ Render

\* A due date change that is made in the session's list and, apart from
\* it, in the list the file holds at that moment
SetDueDateOnFile(k, new_due_date) ==
    /\ DetailShown
    /\ LET tasks == TasksOf(projects.val[proj_idx])
           stored == load_project_data(file).value.val
           patched == [stored EXCEPT ![proj_idx] =
                          DictSet(@, "tasks",
                              PyList([TasksOf(@) EXCEPT ![k] =
                                         DictSet(@, "due_date", PyStr(new_due_date))]))] IN
       /\ k \in 1..Len(tasks)
       /\ ExpanderReached(tasks, k)
       /\ PyStr(new_due_date) /= DictGet(tasks[k], "due_date", PyNone)
       /\ projects' = WithTaskField(proj_idx, k, "due_date", PyStr(new_due_date))
       /\ file' = save_project_data(
                     IF proj_idx <= Len(stored) /\ k <= Len(TasksOf(stored[proj_idx]))
                     THEN PyList(patched) ELSE projects')
    /\ last' = Ran("", FALSE, PyNone)
    /\ UNCHANGED << peer, API_KEY, employees, draft_project, selected_project_id, uuid_count >>
    /\ Render

\* "Due by:" (app.py 310-312): the date picked, as new_due_date.strftime('%Y-%m-%d')
SetDueDate(k, new_due_date) ==
    /\ DetailShown
    /\ LET tasks == TasksOf(projects.val[proj_idx]) IN
       /\ k \in 1..Len(tasks)
       /\ ExpanderReached(tasks, k)
       /\ PyStr(new_due_date) /= DictGet(tasks[k], "due_date", PyNone)
       /\ projects' = WithTaskField(proj_idx, k, "due_date", PyStr(new_due_date))
    /\ file' = save_project_data(projects')
    /\ last' = Ran("", FALSE, PyNone)
    /\ UNCHANGED << peer, API_KEY, employees, draft_project, selected_project_id, uuid_count >>
    /\ Render

\* delete_task(project_id, task_id) (app.py 119-125): the first project
\* with the id loses every task with the task id.
delete_task(project_id, task_id) ==
    LET i == CHOOSE i \in 1..Len(projects.val) :
                /\ projects.val[i].val.id = project_id
                /\ \A j \in 1..(i - 1) : projects.val[j].val.id /= project_id IN
    WithTasks(i, SelectSeq(TasksOf(projects.val[i]),
                           LAMBDA t : DictGet(t, "id", PyNone) /= task_id))

\* "Delete Task" (app.py 314-315)
DeleteTaskButton(k) ==
    /\ DetailShown
    /\ LET proj == projects.val[proj_idx]
           tasks == TasksOf(proj) IN
       /\ k \in 1..Len(tasks)
       /\ ExpanderReached(tasks, k)
       /\ projects' = delete_task(proj.val.id, tasks[k].val.id)
    /\ file' = save_project_data(projects')
    /\ last' = Ran("", FALSE, PyNone)
    /\ UNCHANGED << peer, API_KEY, employees, draft_project, selected_project_id, uuid_count >>
    /\ Render

\* A Save Team that changes the list of the session and writes nothing
SaveTeamInMemory(selected_ids) ==
    /\ DetailShown
    /\ SettingsReached(projects.val[proj_idx])
    /\ projects' = PyList([projects.val EXCEPT ![proj_idx] =
                              DictSet(@, "team", PyList(selected_ids))])
    /\ last' = Ran("", FALSE, PyNone)
    /\ UNCHANGED << peer, API_KEY, employees, draft_project, selected_project_id, uuid_count,
                    file >>
    /\ Render

\* A Save Team that also takes the tasks away from the employees who are no
\* longer on the team
SaveTeamUnassigning(selected_ids) ==
    /\ DetailShown
    /\ SettingsReached(projects.val[proj_idx])
    /\ LET kept == { selected_ids[j] : j \in 1..Len(selected_ids) }
           tasks == TasksOf(projects.val[proj_idx]) IN
       projects' = PyList([projects.val EXCEPT ![proj_idx] =
                      DictSet(DictSet(@, "team", PyList(selected_ids)), "tasks",
                          PyList([k \in 1..Len(tasks) |->
                                    IF DictGet(tasks[k], "assignee_id", PyNone) \in kept
                                    THEN tasks[k]
                                    ELSE DictSet(tasks[k], "assignee_id", PyNone)]))])
    /\ file' = save_project_data(projects')
    /\ last' = Ran("", FALSE, PyNone)
    /\ UNCHANGED << peer, API_KEY, employees, draft_project, selected_project_id, uuid_count >>
    /\ Render

\* "Save Team" (app.py 328-332): selected_ids is what the multiselect holds
SaveTeam(selected_ids) ==
    /\ DetailShown
    /\ SettingsReached(projects.val[proj_idx])
    /\ \A j \in 1..Len(selected_ids) : selected_ids[j] \in DOMAIN get_employee_map
    /\ \A j1, j2 \in 1..Len(selected_ids) : selected_ids[j1] = selected_ids[j2] => j1 = j2
    /\ projects' = PyList([projects.val EXCEPT ![proj_idx] =
                              DictSet(@, "team", PyList(selected_ids))])
    /\ file' = save_project_data(projects')
    /\ last' = Ran("", FALSE, PyNone)
    /\ UNCHANGED << peer, API_KEY, employees, draft_project, selected_project_id, uuid_count >>
    /\ Render

\* A Delete Project that leaves the deleted project selected
DeleteProjectKeepSelected ==
    /\ DetailShown
    /\ SettingsReached(projects.val[proj_idx])
    /\ projects' = PyList(SubSeq(projects.val, 1, proj_idx - 1)
                          \o SubSeq(projects.val, proj_idx + 1, Len(projects.val)))
    /\ file' = save_project_data(projects')
    /\ last' = Ran("", FALSE, PyNone)
    /\ UNCHANGED << peer, API_KEY, employees, draft_project, uuid_count, selected_project_id >>
    /\ Render

\* A Delete Project that removes the first project of the list
DeleteFirstProject ==
    /\ DetailShown
    /\ SettingsReached(projects.val[proj_idx])
    /\ projects' = PyList(Tail(projects.val))
    /\ selected_project_id' = PyNone
    /\ file' = save_project_data(projects')
    /\ last' = Ran("", FALSE, PyNone)
    /\ UNCHANGED << peer, API_KEY, employees, draft_project, uuid_count >>
    /\ Render

\* "Delete Project" (app.py 333-334)
DeleteProject ==
    /\ DetailShown
    /\ SettingsReached(projects.val[proj_idx])
    /\ projects' = PyList(SubSeq(projects.val, 1, proj_idx - 1)
                          \o SubSeq(projects.val, proj_idx + 1, Len(projects.val)))
    /\ selected_project_id' = PyNone
    /\ file' = save_project_data(projects')
    /\ last' = Ran("", FALSE, PyNone)
    /\ UNCHANGED << peer, API_KEY, employees, draft_project, uuid_count >>
    /\ Render

\* "Execute Command" (app.py 345-357): selected_proj_id is the selectbox's
\* choice, the id of project i.
ExecuteCommand(i, command, resp) ==
    /\ AssistantRenders
    /\ i \in 1..Len(projects.val)
    /\ LET selected_proj_id == projects.val[i].val.id IN
       IF ~(Truthy(selected_proj_id) /\ command /= "")
       THEN /\ last' = Ran("", FALSE, PyNone)
            /\ UNCHANGED << projects, file >>
       ELSE LET proj_index == CHOOSE n \in 1..Len(projects.val) :
                    /\ projects.val[n].val.id = selected_proj_id
                    /\ \A m \in 1..(n - 1) : projects.val[m].val.id /= selected_proj_id
                proj == projects.val[proj_index]
                r == modify_tasks_with_llm(DictGet(proj, "tasks", PyList(<<>>)),
                                           team_details(proj), command, resp)
                posted == Truthy(API_KEY) IN
            IF r.raised /= ""
            THEN /\ last' = Ran("Failed to modify tasks", posted, PyNone)
                 /\ UNCHANGED << projects, file >>
            ELSE /\ projects' = WithTasks(proj_index, r.value.val)
                 /\ file' = save_project_data(projects')
                 /\ last' = Ran("", posted, PyNone)
    /\ UNCHANGED << peer, API_KEY, employees, draft_project, selected_project_id, uuid_count >>
    /\ Render

(***************************************************************************)
(* What the user enters and what the endpoint answers                      *)
(***************************************************************************)
BlankBrief == "  "
Brief == "Build a sentiment analysis API"
Command == "delete task 1"

\* Texts of a candidate
NotJsonText == << [tok |-> "Sure, here is the project"] >>
JsonText(v) == json_dumps(v)

NoCandidates == HttpOk(<<>>)
Reply(text) == HttpOk(<< text >>)

\* The object the prompt of generate_project asks for
ProjectObject(team) ==
    PyDict([title |-> PyStr("Project Sentience"),
            description |-> PyStr("A sentiment analysis API"),
            team |-> PyList(team),
            proposed_budget |-> PyInt(4200)])

\* The same with a status of its own
StatusObject(team) == DictSet(ProjectObject(team), "status", PyStr("approved"))

\* The same without its title
UntitledObject(team) ==
    PyDict([description |-> PyStr("A sentiment analysis API"),
            team |-> PyList(team),
            proposed_budget |-> PyInt(4200)])

\* Task objects an answer can hold
Task(id, status, assignee_id) ==
    PyDict([id |-> PyStr(id), description |-> PyStr("1. Design the schema"),
            status |-> PyStr(status), assignee_id |-> assignee_id, due_date |-> PyNone])

Suggestion(assignee_id) ==
    PyDict([description |-> PyStr("1. Design the schema"), assignee_id |-> assignee_id])

\* Answers for which every gateway function raises: the request fails, the
\* body has no candidate, the candidate's text is not JSON.
FailedReplies == { HttpError, NoCandidates, Reply(NotJsonText) }

\* Answers modify_tasks_with_llm rejects
RejectedTaskLists ==
    { Reply(JsonText(PyDict([tasks |-> PyList(<<>>)]))),
      Reply(JsonText(PyList(<< PyStr("task 1") >>))),
      Reply(JsonText(PyList(<< Suggestion(PyNone) >>))) }

\* Answers generate_and_assign_tasks rejects
RejectedSuggestions ==
    { Reply(JsonText(PyDict([tasks |-> PyList(<<>>)]))),
      Reply(JsonText(PyList(<< Suggestion(PyNone), PyStr("task 2") >>))),
      Reply(JsonText(PyList(<< PyDict([description |-> PyStr("1. Design the schema")]) >>))) }

(***************************************************************************)
(* The session                                                             *)
(***************************************************************************)
CorruptFile == [exists |-> TRUE, content |-> << Tok("[") , Tok("{") >>]

\* A project as Approve writes it
ApprovedProject(id, team, tasks) ==
    DictUpdate(ProjectObject(team),
               PyDict([id |-> PyStr(id), status |-> PyStr("approved"),
                       tasks |-> PyList(tasks), user_budget |-> PyInt(6000)]))

\* A project file with one project and one task
BoardFile ==
    save_project_data(PyList(<< ApprovedProject("uuid-a", << EmpId(1), EmpId(2) >>,
                                    << Task("uuid-b", "To Do", EmpId(1)) >>) >>))

\* A project file whose bytes are not text
UndecodableFile == [exists |-> TRUE, content |-> << BadBytes >>]

\* data/employees.json is not there
NoRosterFile == [type |-> "missing"]

\* agent.load_employees(file_path): the roster of the file
load_employees(roster_file) ==
    IF roster_file.type = NoRosterFile.type THEN Raise("FileNotFoundError")
    ELSE Return(roster_file)

\* A key that is not in st.session_state
Unset == [type |-> "unset"]
IsSet(v) == v.type /= "unset"

\* st.session_state of a new session
NewSession ==
    [employees |-> Unset, projects |-> Unset, draft_project |-> Unset,
     selected_project_id |-> Unset]

\* st.session_state of the running session
session_state ==
    [employees |-> employees, projects |-> projects, draft_project |-> draft_project,
     selected_project_id |-> selected_project_id]

\* app.py 128-142, run on the session state ss: the session state the run
\* leaves, and how the run ended ("" when it went on to the sidebar).
\* st.stop() and an uncaught exception end the run; what was assigned
\* before stays in the session state.
initialize(ss, roster_file, f) ==
    LET r == load_employees(roster_file)
        p == load_project_data(f) IN
    IF ~IsSet(ss.employees) /\ r.raised /= ""
    THEN [state |-> [ss EXCEPT !.employees = PyList(<<>>)], ended |-> "Fatal Error"]
    ELSE LET s1 == IF IsSet(ss.employees) THEN ss ELSE [ss EXCEPT !.employees = r.value] IN
         IF ~IsSet(s1.projects) /\ p.raised /= ""
         THEN [state |-> s1, ended |-> p.raised]
         ELSE [state |->
                 [employees |-> s1.employees,
                  projects |-> IF IsSet(s1.projects) THEN s1.projects ELSE p.value,
                  draft_project |->
                      IF IsSet(s1.draft_project) THEN s1.draft_project ELSE PyNone,
                  selected_project_id |->
                      IF IsSet(s1.selected_project_id) THEN s1.selected_project_id
                      ELSE PyNone],
               ended |-> ""]

\* The run got past the initialization: the sidebar and the tabs are there.
Initialized == IsSet(projects) /\ IsSet(draft_project) /\ IsSet(selected_project_id)

\* The first run of the script in a session, with one of the keys, the
\* roster file and one of the project files.
FirstRun(keys, roster, files) ==
    /\ API_KEY \in keys
    /\ file \in files
    /\ LET run == initialize(NewSession, roster, file) IN
       /\ employees = run.state.employees
       /\ projects = run.state.projects
       /\ draft_project = run.state.draft_project
       /\ selected_project_id = run.state.selected_project_id
       /\ last = Ran(run.ended, FALSE, PyNone)
    /\ uuid_count = 0
    /\ view = DraftView(PyNone)

\* What a session is made of: its st.session_state and its page
Session == [state |-> session_state, last |-> last, view |-> view]

\* No other session
NoSession == [state |-> NewSession, last |-> Ran("", FALSE, PyNone), view |-> DraftView(PyNone)]

\* One browser session on the server
InitWith(keys, roster, files) ==
    /\ FirstRun(keys, roster, files)
    /\ peer = NoSession

\* Two browser sessions on the server; each ran the script once on the same
\* files.
InitTwoSessions(keys, roster, files) ==
    /\ FirstRun(keys, roster, files)
    /\ peer = Session

\* The user turns to the other session: its state is the one the next
\* script run works on.  The module-level API_KEY, the project file and
\* the uuid generator are the server's and are shared.
SwitchSession ==
    /\ IsSet(peer.state.employees)
    /\ employees' = peer.state.employees
    /\ projects' = peer.state.projects
    /\ draft_project' = peer.state.draft_project
    /\ selected_project_id' = peer.state.selected_project_id
    /\ last' = peer.last
    /\ view' = peer.view
    /\ peer' = Session
    /\ UNCHANGED << API_KEY, file, uuid_count >>

\* A run of the script with no widget used (Rerun of the app menu, or the
\* run that follows a run that ended early).
Rerun ==
    LET run == initialize(session_state, NoRosterFile, file) IN
    /\ employees' = run.state.employees
    /\ projects' = run.state.projects
    /\ draft_project' = run.state.draft_project
    /\ selected_project_id' = run.state.selected_project_id
    /\ last' = Ran(run.ended, FALSE, PyNone)
    /\ view' = IF run.ended = "" THEN DraftView(draft_project') ELSE DraftView(PyNone)
    /\ UNCHANGED << peer, API_KEY, file, uuid_count >>

\* The indexes of the task cards of the detail pane
CardIndexes == 1..(IF DetailShown THEN Len(TasksOf(projects.val[proj_idx])) ELSE 0)

\* The task lists of the projects, one after the other
RECURSIVE TaskListsJoined(_)
TaskListsJoined(list) ==
    IF list = <<>> THEN <<>>
    ELSE TasksOf(list[1]) \o TaskListsJoined(Tail(list))

\* No task list is longer than n.
TaskListsWithin(n) == \A i \in 1..Len(projects.val) : Len(TasksOf(projects.val[i])) <= n

(***************************************************************************)
(* The application: every handler, on a few answers of each kind           *)
(***************************************************************************)
MaxProjects == 1     \* Approve is not used beyond this many projects
MaxTasks == 1        \* Suggest is not used on a longer task list
MaxUuid == 2         \* uuid.uuid4() values drawn in one run of the model

GenerateReplies ==
    FailedReplies
    \cup { Reply(JsonText(PyList(<<>>))),
           Reply(JsonText(ProjectObject(<< EmpId(1) >>))) }

SuggestReplies ==
    FailedReplies \cup RejectedSuggestions
    \cup { Reply(JsonText(PyList(<<>>))),
           Reply(JsonText(PyList(<< Suggestion(EmpId(1)) >>))) }

ExecuteReplies ==
    FailedReplies \cup RejectedTaskLists
    \cup { Reply(JsonText(PyList(<<>>))),
           Reply(JsonText(PyList(<< Task("t1", "In Progress", EmpId(1)) >>))) }

\* What the multiselect of "Modify Team" can hold
TeamSelections == { <<>>, << EmpId(2) >> }

Init == InitWith({PyStr("key"), PyNone}, Roster, {NoFile, CorruptFile, BoardFile})

Next ==
    \/ GenerateProjectDraft(BlankBrief, 6000, HttpError)
    \/ /\ uuid_count < MaxUuid
       /\ \E resp \in GenerateReplies : GenerateProjectDraft(Brief, 6000, resp)
    \/ Len(projects.val) < MaxProjects /\ ApproveProject
    \/ DiscardDraft
    \/ \E i \in 1..Len(projects.val) : SelectProject(i)
    \/ CloseProject
    \/ /\ uuid_count < MaxUuid
       /\ TaskListsWithin(MaxTasks - 1)
       /\ \E resp \in SuggestReplies : SuggestTasks(resp)
    \/ \E k \in CardIndexes, button \in Buttons : TaskStatusButton(k, button)
    \/ \E k \in CardIndexes, id \in {EmpId(1), PyStr("unassigned")} : AssignTask(k, id)
    \/ \E k \in CardIndexes, d \in Dates : SetDueDate(k, d)
    \/ \E k \in CardIndexes : DeleteTaskButton(k)
    \/ \E ids \in TeamSelections : SaveTeam(ids)
    \/ DeleteProject
    \/ \E i \in 1..Len(projects.val) : ExecuteCommand(i, "", HttpError)
    \/ \E i \in 1..Len(projects.val), resp \in ExecuteReplies : ExecuteCommand(i, Command, resp)

Spec == Init /\ [][Next]_vars

(***************************************************************************)
(* The LLM-backed actions: Generate Project Draft, Suggest & Auto-Assign   *)
(* Tasks and Execute Command, with what it takes to reach them             *)
(***************************************************************************)
NextAssistant ==
    \/ /\ uuid_count < MaxUuid
       /\ \E resp \in GenerateReplies : GenerateProjectDraft(Brief, 6000, resp)
    \/ Len(projects.val) < MaxProjects /\ ApproveProject
    \/ DiscardDraft
    \/ \E i \in 1..Len(projects.val) : SelectProject(i)
    \/ /\ uuid_count < MaxUuid
       /\ TaskListsWithin(MaxTasks - 1)
       /\ \E resp \in SuggestReplies : SuggestTasks(resp)
    \/ \E i \in 1..Len(projects.val), resp \in ExecuteReplies : ExecuteCommand(i, Command, resp)

SpecAssistant == Init /\ [][NextAssistant]_vars

(***************************************************************************)
(* The draft view: Generate Project Draft on teams of every grade and      *)
(* budgets on both sides of the 90% and 100% marks                         *)
(***************************************************************************)
MaxTeamLen == 2      \* entries of a proposed team
MaxDrafts == 2       \* drafts stored in one run

\* An entry of a team: an id, or an object with an id
TeamEntries ==
    { EmpId(n) : n \in 1..7 } \cup { GhostId, PyDict([id |-> EmpId(3)]) }

ProposedTeams ==
    UNION { [1..n -> TeamEntries] : n \in 0..MaxTeamLen }

Budgets == { 0, 3499, 3500, 4999, 5000, 5001, 6000, 10000 }

DraftReplies ==
    { Reply(NotJsonText) } \cup { Reply(JsonText(ProjectObject(team))) : team \in ProposedTeams }

InitDraft == InitWith({PyStr("key")}, GradeRoster, {NoFile})

NextDraft ==
    \/ /\ uuid_count < MaxDrafts
       /\ ~Truthy(draft_project)
       /\ \E user_budget \in Budgets, resp \in DraftReplies :
             GenerateProjectDraft(Brief, user_budget, resp)
    \/ DiscardDraft

SpecDraft == InitDraft /\ [][NextDraft]_vars

(***************************************************************************)
(* The portfolio: projects are generated, approved, discarded and deleted; *)
(* the team of a project is not edited                                     *)
(***************************************************************************)
MaxPortfolio == 3    \* Approve is not used beyond this many projects
MaxGenerated == 2    \* drafts stored in one run

\* A project file with two projects: the first employee is on both teams,
\* the second on one, the third on none.
PortfolioFile ==
    save_project_data(PyList(<< ApprovedProject("uuid-a", << EmpId(1), EmpId(2) >>, <<>>),
                                ApprovedProject("uuid-b", << EmpId(1) >>, <<>>) >>))

PortfolioReplies ==
    { Reply(NotJsonText),
      Reply(JsonText(PyList(<<>>))),
      Reply(JsonText(ProjectObject(<< EmpId(2), EmpId(3) >>))),
      Reply(JsonText(ProjectObject(<< EmpId(1) >>))),
      Reply(JsonText(UntitledObject(<< EmpId(3) >>))) }

InitPortfolio == InitWith({PyStr("key")}, Roster, {NoFile, PortfolioFile})

NextPortfolio ==
    \/ /\ uuid_count < MaxGenerated
       /\ \E resp \in PortfolioReplies : GenerateProjectDraft(Brief, 6000, resp)
    \/ Len(projects.val) < MaxPortfolio /\ ApproveProject
    \/ DiscardDraft
    \/ \E i \in 1..Len(projects.val) : SelectProject(i)
    \/ CloseProject
    \/ DeleteProject

SpecPortfolio == InitPortfolio /\ [][NextPortfolio]_vars

(***************************************************************************)
(* The task board of one project: its cards, the task suggester and the    *)
(* assistant's commands                                                    *)
(***************************************************************************)
MaxBoardTasks == 1   \* Suggest is not used on a longer task list
MaxSuggested == 1    \* tasks suggested in one run

BoardSuggestReplies ==
    { HttpError,
      Reply(JsonText(PyList(<< Suggestion(PyNone), PyStr("task 2") >>))),
      Reply(JsonText(PyList(<< Suggestion(EmpId(2)) >>))) }

BoardExecuteReplies ==
    { Reply(NotJsonText),
      Reply(JsonText(PyList(<< PyStr("task 1") >>))),
      Reply(JsonText(PyList(<<>>))),
      Reply(JsonText(PyList(<< Task("t1", "In Progress", EmpId(1)),
                               Task("t2", "Completed", PyNone) >>))),
      Reply(JsonText(PyList(<< Task("t1", "To Do", PyNone), PyStr("task 2") >>))),
      Reply(JsonText(PyList(<< Task("t1", "Done", PyNone) >>))),
      Reply(JsonText(PyList(<< Task("t1", "To Do", PyNone),
                               Task("t1", "In Progress", PyNone) >>))) }

InitBoard == InitWith({PyStr("key")}, Roster, {BoardFile})

NextBoard ==
    \/ \E i \in 1..Len(projects.val) : SelectProject(i)
    \/ CloseProject
    \/ /\ uuid_count < MaxSuggested
       /\ TaskListsWithin(MaxBoardTasks - 1)
       /\ \E resp \in BoardSuggestReplies : SuggestTasks(resp)
    \/ \E k \in CardIndexes, button \in Buttons : TaskStatusButton(k, button)
    \/ \E k \in CardIndexes, id \in {EmpId(1), EmpId(2), PyStr("unassigned")} : AssignTask(k, id)
    \/ \E k \in CardIndexes, d \in Dates : SetDueDate(k, d)
    \/ \E k \in CardIndexes : DeleteTaskButton(k)
    \/ \E i \in 1..Len(projects.val), resp \in BoardExecuteReplies :
          ExecuteCommand(i, Command, resp)

SpecBoard == InitBoard /\ [][NextBoard]_vars

(***************************************************************************)
(* The start of a session: the roster file and the project file as they    *)
(* may be found, the runs that follow a run that ended early, and what can *)
(* be done once a run gets to the tabs                                     *)
(***************************************************************************)
StartSuggestReplies ==
    { HttpError, Reply(JsonText(PyList(<< Suggestion(PyNone) >>))) }

InitStart ==
    \E roster_file \in {Roster, NoRosterFile} :
        InitWith({PyStr("key")}, roster_file,
                 {NoFile, CorruptFile, UndecodableFile, BoardFile})

\* No widget is there before a run gets past the initialization.
NextStart ==
    \/ Rerun
    \/ Initialized /\ GenerateProjectDraft(Brief, 6000, HttpError)
    \/ Initialized /\ \E i \in 1..Len(projects.val) : SelectProject(i)
    \/ Initialized /\ CloseProject
    \/ /\ Initialized
       /\ uuid_count < MaxSuggested
       /\ TaskListsWithin(MaxBoardTasks)
       /\ \E resp \in StartSuggestReplies : SuggestTasks(resp)
    \/ Initialized /\ \E k \in CardIndexes, button \in Buttons : TaskStatusButton(k, button)
    \/ Initialized /\ \E k \in CardIndexes : DeleteTaskButton(k)
    \/ Initialized /\ DeleteProject

SpecStart == InitStart /\ [][NextStart]_vars

(***************************************************************************)
(* The project store: every handler that changes the project list, in a    *)
(* session that found a project file with an empty list                    *)
(***************************************************************************)
MaxStoreProjects == 1   \* Approve is not used beyond this many projects
MaxStoreTasks == 1      \* Suggest and Execute are not used beyond this many tasks
MaxStoreUuid == 2       \* uuid.uuid4() values drawn in one run of the model

EmptyListFile == save_project_data(PyList(<<>>))

StoreGenerateReplies == { HttpError, Reply(JsonText(StatusObject(<< EmpId(1) >>))) }
StoreSuggestReplies == { HttpError, Reply(JsonText(PyList(<< Suggestion(EmpId(1)) >>))) }
StoreExecuteReplies ==
    { HttpError, Reply(JsonText(PyList(<< Task("t1", "In Progress", PyNone) >>))) }

\* What the controls of a card and of "Modify Team" are set to
StoreAssignees == { EmpId(1), PyStr("unassigned") }
StoreTeams == { << EmpId(1), EmpId(2) >> }

\* The number of tasks of all projects
TaskCount == Len(TaskListsJoined(projects.val))

InitStore == InitWith({PyStr("key")}, Roster, {EmptyListFile})

NextStore ==
    \/ /\ uuid_count < MaxStoreUuid
       /\ ~Truthy(draft_project)
       /\ \E resp \in StoreGenerateReplies : GenerateProjectDraft(Brief, 6000, resp)
    \/ Len(projects.val) < MaxStoreProjects /\ ApproveProject
    \/ \E i \in 1..Len(projects.val) : SelectProject(i)
    \/ /\ uuid_count < MaxStoreUuid
       /\ TaskCount < MaxStoreTasks
       /\ \E resp \in StoreSuggestReplies : SuggestTasks(resp)
    \/ \E k \in CardIndexes, button \in Buttons : TaskStatusButton(k, button)
    \/ \E k \in CardIndexes, id \in StoreAssignees : AssignTask(k, id)
    \/ \E k \in CardIndexes, d \in Dates : SetDueDate(k, d)
    \/ \E k \in CardIndexes : DeleteTaskButton(k)
    \/ \E ids \in StoreTeams : SaveTeam(ids)
    \/ DeleteProject
    \/ /\ TaskCount < MaxStoreTasks
       /\ \E i \in 1..Len(projects.val), resp \in StoreExecuteReplies :
             ExecuteCommand(i, Command, resp)

SpecStore == InitStore /\ [][NextStore]_vars

(***************************************************************************)
(* Two sessions on one project file: each loaded it in its first run, and  *)
(* each runs the handlers of the task board on its own list                *)
(***************************************************************************)
InitShared == InitTwoSessions({PyStr("key")}, Roster, {BoardFile})

NextShared ==
    \/ SwitchSession
    \/ \E i \in 1..Len(projects.val) : SelectProject(i)
    \/ \E k \in CardIndexes, button \in Buttons : TaskStatusButton(k, button)
    \/ \E k \in CardIndexes, id \in StoreAssignees : AssignTask(k, id)
    \/ \E k \in CardIndexes, d \in Dates : SetDueDate(k, d)
    \/ \E k \in CardIndexes : DeleteTaskButton(k)
    \/ \E ids \in StoreTeams : SaveTeam(ids)
    \/ DeleteProject

SpecShared == InitShared /\ [][NextShared]_vars

(***************************************************************************)
(* A server with no GOOGLE_API_KEY secret (API_KEY is None), or with an    *)
(* empty one: the three LLM-backed actions with answers that would be      *)
(* accepted, and the actions of the Projects tab                           *)
(***************************************************************************)
NoKeys == { PyNone, PyStr("") }

NoKeyGenerateReplies == { Reply(JsonText(ProjectObject(<< EmpId(1) >>))) }
NoKeySuggestReplies == { Reply(JsonText(PyList(<< Suggestion(EmpId(1)) >>))) }
NoKeyExecuteReplies == { Reply(JsonText(PyList(<< Task("t1", "In Progress", PyNone) >>))) }
NoKeyTeams == { << EmpId(2) >> }

InitNoKey == InitWith(NoKeys, Roster, {BoardFile})

NextNoKey ==
    \/ /\ uuid_count < MaxStoreUuid
       /\ \E resp \in NoKeyGenerateReplies : GenerateProjectDraft(Brief, 6000, resp)
    \/ \E i \in 1..Len(projects.val) : SelectProject(i)
    \/ CloseProject
    \/ /\ uuid_count < MaxStoreUuid
       /\ \E resp \in NoKeySuggestReplies : SuggestTasks(resp)
    \/ \E k \in CardIndexes, button \in Buttons : TaskStatusButton(k, button)
    \/ \E k \in CardIndexes, id \in StoreAssignees \cup {EmpId(2)} : AssignTask(k, id)
    \/ \E k \in CardIndexes, d \in Dates : SetDueDate(k, d)
    \/ \E k \in CardIndexes : DeleteTaskButton(k)
    \/ \E ids \in NoKeyTeams : SaveTeam(ids)
    \/ DeleteProject
    \/ \E i \in 1..Len(projects.val), resp \in NoKeyExecuteReplies :
          ExecuteCommand(i, Command, resp)

SpecNoKey == InitNoKey /\ [][NextNoKey]_vars

(***************************************************************************)
(* The teams: Save Team on three projects, and the drafts generated        *)
(* afterwards                                                              *)
(***************************************************************************)
MaxTeamDrafts == 2   \* drafts stored in one run

\* A project file with three projects; the third employee is on no team.
TeamsFile ==
    save_project_data(PyList(<< ApprovedProject("uuid-a", << EmpId(1) >>, <<>>),
                                ApprovedProject("uuid-b", << EmpId(2) >>, <<>>),
                                ApprovedProject("uuid-c", <<>>, <<>>) >>))

\* What the multiselect of "Modify Team" is set to
TeamEdits == { <<>>, << EmpId(3) >> }

TeamsReplies == { Reply(JsonText(ProjectObject(<< EmpId(1) >>))) }

InitTeams == InitWith({PyStr("key")}, Roster, {TeamsFile})

NextTeams ==
    \/ \E i \in 1..Len(projects.val) : SelectProject(i)
    \/ \E ids \in TeamEdits : SaveTeam(ids)
    \/ /\ uuid_count < MaxTeamDrafts
       /\ ~Truthy(draft_project)
       /\ \E resp \in TeamsReplies : GenerateProjectDraft(Brief, 6000, resp)
    \/ DiscardDraft

SpecTeams == InitTeams /\ [][NextTeams]_vars

(***************************************************************************)
(* Two projects with tasks: what an action on one project leaves of the    *)
(* project, of the other project and of the draft                          *)
(***************************************************************************)
MaxFrameUuid == 1    \* uuid.uuid4() values drawn before Generate and Suggest are not used

\* A project file with two projects: the first has a task of each of its
\* two employees, the second a task of the third employee.
FrameFile ==
    save_project_data(PyList(<<
        ApprovedProject("uuid-a", << EmpId(1), EmpId(2) >>,
                        << Task("uuid-b", "To Do", EmpId(1)),
                           Task("uuid-c", "In Progress", EmpId(2)) >>),
        ApprovedProject("uuid-d", << EmpId(3) >>,
                        << Task("uuid-e", "Completed", EmpId(3)) >>) >>))

\* A suggestion with a description of its own
SuggestionOf(description, assignee_id) ==
    PyDict([description |-> PyStr(description), assignee_id |-> assignee_id])

FrameSuggestReplies ==
    { Reply(NotJsonText),
      Reply(JsonText(PyList(<<>>))),
      Reply(JsonText(PyList(<< SuggestionOf("3. Write the tests", EmpId(2)),
                               SuggestionOf("4. Deploy", PyNone) >>))),
      Reply(JsonText(PyList(<< Suggestion(PyNone), PyStr("task 2") >>))),
      Reply(JsonText(PyList(<< Suggestion(PyNone),
                               PyDict([description |-> PyStr("2. Review")]) >>))),
      Reply(JsonText(SuggestionOf("3. Write the tests", EmpId(2)))) }

FrameExecuteReplies ==
    { Reply(NotJsonText),
      Reply(JsonText(PyList(<<>>))),
      Reply(JsonText(PyList(<< Task("t1", "In Progress", EmpId(1)),
                               Task("t2", "To Do", PyNone) >>))) }

InitFrame == InitWith({PyStr("key")}, Roster, {FrameFile})

NextFrame ==
    \/ /\ uuid_count < MaxFrameUuid
       /\ ~Truthy(draft_project)
       /\ \E resp \in TeamsReplies : GenerateProjectDraft(Brief, 6000, resp)
    \/ \E i \in 1..Len(projects.val) : SelectProject(i)
    \/ /\ uuid_count < MaxFrameUuid
       /\ \E resp \in FrameSuggestReplies : SuggestTasks(resp)
    \/ \E k \in CardIndexes : DeleteTaskButton(k)
    \/ \E ids \in NoKeyTeams : SaveTeam(ids)
    \/ \E i \in 1..Len(projects.val), resp \in FrameExecuteReplies :
          ExecuteCommand(i, Command, resp)

SpecFrame == InitFrame /\ [][NextFrame]_vars

(***************************************************************************)
(* The keys of a draft: answers to Generate Project Draft that hold keys   *)
(* the handler sets, for several budgets                                   *)
(***************************************************************************)
MaxKeysDrafts == 2   \* drafts stored in one run

\* The object the prompt asks for, with an id, a status, tasks and a
\* user_budget of the LLM's own
OverridingObject(team) ==
    DictUpdate(ProjectObject(team),
               PyDict([id |-> PyStr("uuid-a"), status |-> PyStr("approved"),
                       tasks |-> PyList(<< Task("t1", "Completed", PyNone) >>),
                       user_budget |-> PyInt(1)]))

KeysReplies ==
    { Reply(NotJsonText),
      Reply(JsonText(PyList(<< ProjectObject(<< EmpId(2) >>) >>))),
      Reply(JsonText(ProjectObject(<< EmpId(2) >>))),
      Reply(JsonText(StatusObject(<< EmpId(3) >>))),
      Reply(JsonText(OverridingObject(<< EmpId(2), EmpId(3) >>))) }

\* What the user enters as "Proposed Budget"
KeysBudgets == { 0, 5000, 6000 }

InitKeys == InitWith({PyStr("key")}, Roster, {NoFile, PortfolioFile})

NextKeys ==
    \/ /\ uuid_count < MaxKeysDrafts
       /\ \E user_budget \in KeysBudgets, resp \in KeysReplies :
             GenerateProjectDraft(Brief, user_budget, resp)
    \/ Len(projects.val) < MaxPortfolio /\ ApproveProject
    \/ DiscardDraft

SpecKeys == InitKeys /\ [][NextKeys]_vars

(***************************************************************************)
(* A session that finds a project file it cannot load: the runs of the     *)
(* script, and what the New Project and Projects tabs do to the file       *)
(***************************************************************************)
CorruptGenerateReplies ==
    { Reply(NotJsonText),
      Reply(JsonText(ProjectObject(<< EmpId(1) >>))),
      Reply(JsonText(ProjectObject(<< EmpId(2), EmpId(3) >>))) }

InitCorrupt == InitWith({PyStr("key")}, Roster, {CorruptFile, UndecodableFile})

NextCorrupt ==
    \/ Rerun
    \/ /\ Initialized
       /\ uuid_count < MaxGenerated
       /\ \E resp \in CorruptGenerateReplies : GenerateProjectDraft(Brief, 6000, resp)
    \/ Initialized /\ Len(projects.val) < MaxPortfolio /\ ApproveProject
    \/ Initialized /\ DiscardDraft
    \/ Initialized /\ \E i \in 1..Len(projects.val) : SelectProject(i)
    \/ Initialized /\ CloseProject
    \/ /\ Initialized
       /\ uuid_count < MaxGenerated
       /\ \E resp \in StoreSuggestReplies : SuggestTasks(resp)
    \/ Initialized /\ \E k \in CardIndexes, button \in Buttons : TaskStatusButton(k, button)
    \/ Initialized /\ \E k \in CardIndexes : DeleteTaskButton(k)
    \/ Initialized /\ \E ids \in StoreTeams : SaveTeam(ids)
    \/ Initialized /\ DeleteProject

SpecCorrupt == InitCorrupt /\ [][NextCorrupt]_vars

(***************************************************************************)
(* Properties of the LLM-backed actions                                    *)
(***************************************************************************)
\* The step reports an error and leaves the project list, the draft and the
\* project file as they were.
FailureReported ==
    /\ UNCHANGED << projects, draft_project, file >>
    /\ last'.error /= ""

\* C1: when the gateway call of Generate Project Draft, of Suggest &
\* Auto-Assign Tasks or of Execute Command fails (the request fails, the
\* answer has no candidate, its text is not JSON, its shape is rejected, or
\* no API key is set), the project list, the draft and the project file
\* are what they were before the action, and an error is reported.
C1_FailedCallLeavesState ==
    [][ /\ \A resp \in GenerateReplies :
              (resp \in FailedReplies \/ ~Truthy(API_KEY))
              /\ GenerateProjectDraft(Brief, 6000, resp) => FailureReported
        /\ \A resp \in SuggestReplies :
              (resp \in FailedReplies \cup RejectedSuggestions \/ ~Truthy(API_KEY))
              /\ SuggestTasks(resp) => FailureReported
        /\ \A i \in 1..Len(projects.val), resp \in ExecuteReplies :
              (resp \in FailedReplies \cup RejectedTaskLists \/ ~Truthy(API_KEY))
              /\ ExecuteCommand(i, Command, resp) => FailureReported
      ]_vars

\* A request of Generate Project Draft was sent and failed while there were
\* a project list, a draft and a project file to lose.
C1_FailedGenerate ==
    /\ last.error = "Failed to generate project"
    /\ last.posted
    /\ Truthy(projects)
    /\ Truthy(draft_project)
    /\ file.exists

(***************************************************************************)
(* Properties of the draft view                                            *)
(***************************************************************************)
\* The budget of the draft on display
DraftBudget == draft_project.val.user_budget.val

\* C2: for every team cost and every budget above 0, the draft view shows
\* exactly one of the three messages: "Over Budget" iff
\* team_cost / budget * 100 > 100, "Nearing Budget" iff it is between 90 and
\* 100, both included, and "Within Budget" otherwise; a team of two grade-A
\* employees against a budget of 6000 is over budget.
C2_Classification ==
    (view.state = "draft" /\ DraftBudget > 0) =>
        /\ view.message \in {"Over Budget", "Nearing Budget", "Within Budget"}
        /\ view.message = "Over Budget" <=> view.team_cost * 100 > 100 * DraftBudget
        /\ view.message = "Nearing Budget" <=>
              (90 * DraftBudget <= view.team_cost * 100
               /\ view.team_cost * 100 <= 100 * DraftBudget)
        /\ (draft_project.val.team.val = << EmpId(1), EmpId(2) >> /\ DraftBudget = 6000)
              => (view.team_cost = 7000 /\ view.message = "Over Budget")

\* A draft whose team costs exactly 90% of the budget is on display.
C2_AtNinety ==
    /\ view.state = "draft"
    /\ DraftBudget > 0
    /\ view.team_cost > 0
    /\ view.team_cost * 100 = 90 * DraftBudget
    /\ view.message = "Nearing Budget"

\* The salary of a grade in the table A=3500, B=3000, C=2500, D=2200, E=2000
TableSalary(grade) ==
    CASE grade = "A" -> 3500 [] grade = "B" -> 3000 [] grade = "C" -> 2500
      [] grade = "D" -> 2200 [] grade = "E" -> 2000 [] OTHER -> 0

\* What an entry of a team contributes: the salary of the grade of the
\* roster's employee with the entry's id, 0 when the roster has none.
EntryCost(entry) ==
    LET eid == IF entry.type = "dict" THEN entry.val.id ELSE entry
        known == { n \in 1..Len(employees.val) : employees.val[n].val.id = eid } IN
    IF known = {} THEN 0
    ELSE TableSalary(employees.val[CHOOSE n \in known : TRUE].val.salary_grade.val)

RECURSIVE SumOfEntries(_)
SumOfEntries(team) ==
    IF team = <<>> THEN 0 ELSE EntryCost(Head(team)) + SumOfEntries(Tail(team))

\* C3: the team cost of the draft on display is the sum, over the entries
\* of its team, of the salary of the employee's grade in the table
\* A=3500, B=3000, C=2500, D=2200, E=2000; an entry whose employee is not in
\* the roster or whose grade is not in the table contributes 0.
C3_TeamCost ==
    view.state = "draft" => view.team_cost = SumOfEntries(draft_project.val.team.val)

\* The draft on display has a team of an employee whose grade is not in the
\* table and an id that is not in the roster, and costs nothing.
C3_UnknownCostNothing ==
    /\ view.state = "draft"
    /\ draft_project.val.team.val = << EmpId(7), GhostId >>
    /\ view.team_cost = 0

(***************************************************************************)
(* Properties of the portfolio                                             *)
(***************************************************************************)
\* The memberships of an employee: the entries, over the teams of all the
\* projects of the list, that name the employee.
Memberships(eid) ==
    LET entries == UNION { { << i, j >> : j \in 1..Len(projects.val[i].val.team.val) } :
                             i \in 1..Len(projects.val) } IN
    Cardinality({ ij \in entries :
                    LET entry == projects.val[ij[1]].val.team.val[ij[2]] IN
                    eid = (IF entry.type = "dict" THEN entry.val.id ELSE entry) })

\* C4: the roster Generate Project Draft passes to the LLM is the employees
\* with fewer than 2 memberships, in roster order: an employee with exactly
\* 2 memberships is left out, one with 1 or 0 is passed.
C4_EligibleRoster ==
    last.roster /= PyNone =>
        last.roster = PyList(SelectSeq(employees.val,
                                       LAMBDA e : Memberships(e.val.id) < 2))

\* A roster was passed while the first employee had exactly 2 memberships
\* and the second exactly 1: it holds the second and not the first.
C4_TwoLeftOut ==
    /\ last.roster /= PyNone
    /\ last.posted
    /\ Memberships(EmpId(1)) = 2
    /\ Memberships(EmpId(2)) = 1
    /\ \A n \in 1..Len(last.roster.val) : last.roster.val[n].val.id /= EmpId(1)
    /\ \E n \in 1..Len(last.roster.val) : last.roster.val[n].val.id = EmpId(2)

\* C5: the membership cap is enforced when a project is created: with no
\* use of Save Team, from a project list in which every employee has at
\* most 2 memberships, every employee has at most 2 memberships in every
\* state that Generate, Approve, Discard and Delete Project reach.
C5_CapHolds ==
    \A n \in 1..Len(employees.val) : Memberships(employees.val[n].val.id) <= 2

\* The first employee, on two teams when the session began, is on the
\* teams of three saved projects.
C5_OnThreeTeams ==
    /\ Len(projects.val) = 3
    /\ Memberships(EmpId(1)) = 3
    /\ file = save_project_data(projects)

\* C6: a draft is stored only if the answer is a JSON object with the keys
\* title, description, team and proposed_budget.
C6_DraftHasKeys ==
    Truthy(draft_project) =>
        \A k \in {"title", "description", "team", "proposed_budget"} :
            HasKey(draft_project, k)

\* A draft without a title is stored, no error was reported, and the draft
\* view raises KeyError.
C6_UntitledDraft ==
    /\ Truthy(draft_project)
    /\ ~HasKey(draft_project, "title")
    /\ last.posted /\ last.error = ""
    /\ view.state = "KeyError"

(***************************************************************************)
(* Properties of the task board                                            *)
(***************************************************************************)
\* The tasks of the list, as (project, task) index pairs
AllTasks ==
    UNION { { << i, k >> : k \in 1..Len(TasksOf(projects.val[i])) } :
              i \in 1..Len(projects.val) }

TaskAt(ik) == TasksOf(projects.val[ik[1]])[ik[2]]

\* C7: modify_tasks_with_llm returns a task list only if every element of
\* the answer is an object with an id, so every task of every project is an
\* object with an id after Execute Command.
C7_TasksHaveIds ==
    \A ik \in AllTasks : isinstance(TaskAt(ik), "dict") /\ HasKey(TaskAt(ik), "id")

\* A task that is a string is in the list and in the file, after an answer
\* whose first element has an id and whose second is a string.
C7_StringTask ==
    /\ \E ik \in AllTasks : isinstance(TaskAt(ik), "str")
    /\ file = save_project_data(projects)
    /\ last.posted /\ last.error = ""

\* C8: every task of every project has one of the statuses "To Do",
\* "In Progress" and "Completed"; no action sets another one.
C8_StatusInSet ==
    \A ik \in AllTasks :
        (isinstance(TaskAt(ik), "dict") /\ HasKey(TaskAt(ik), "status"))
            => (isinstance(TaskAt(ik).val.status, "str")
                /\ TaskAt(ik).val.status.val \in TaskStatuses)

\* A task with the status "Done" is in the list and in the file.
C8_DoneTask ==
    /\ \E ik \in AllTasks :
          /\ isinstance(TaskAt(ik), "dict")
          /\ HasKey(TaskAt(ik), "status")
          /\ TaskAt(ik).val.status = PyStr("Done")
    /\ file = save_project_data(projects)
    /\ last.posted /\ last.error = ""

\* C9: there is no transition order on the task board: whatever of the
\* three statuses the task of a card has, the card has a button for each
\* of the other two.
C9_AnyToAny ==
    \A k \in CardIndexes :
        LET tasks == TasksOf(projects.val[proj_idx]) IN
        (StatusButtonsReached(tasks, k) /\ tasks[k].val.status.val \in TaskStatuses)
            => \A t \in TaskStatuses \ {tasks[k].val.status.val} :
                  \E button \in Buttons : ButtonTarget(tasks[k].val.status.val, button) = t

\* The card of a "To Do" task is rendered and none of its buttons sets
\* "Completed".
C9_NoCompleteFromToDo ==
    \E k \in CardIndexes :
        LET tasks == TasksOf(projects.val[proj_idx]) IN
        /\ StatusButtonsReached(tasks, k)
        /\ tasks[k].val.status = PyStr("To Do")
        /\ \A button \in Buttons : ButtonTarget("To Do", button) /= "Completed"

\* The data model of a task and of a project
SchemaTask(task) ==
    /\ isinstance(task, "dict")
    /\ DOMAIN task.val = {"id", "description", "status", "assignee_id", "due_date"}
    /\ isinstance(task.val.id, "str")
    /\ isinstance(task.val.description, "str")
    /\ isinstance(task.val.status, "str") /\ task.val.status.val \in TaskStatuses
    /\ task.val.assignee_id = PyNone \/ isinstance(task.val.assignee_id, "str")
    /\ task.val.due_date = PyNone
       \/ (isinstance(task.val.due_date, "str") /\ task.val.due_date.val \in Dates)

SchemaProject(proj) ==
    /\ isinstance(proj, "dict")
    /\ DOMAIN proj.val = {"id", "title", "description", "team", "status",
                          "user_budget", "proposed_budget", "tasks"}
    /\ isinstance(proj.val.id, "str")
    /\ isinstance(proj.val.title, "str")
    /\ isinstance(proj.val.description, "str")
    /\ isinstance(proj.val.team, "list")
    /\ \A j \in 1..Len(proj.val.team.val) : isinstance(proj.val.team.val[j], "str")
    /\ isinstance(proj.val.status, "str") /\ proj.val.status.val \in {"pending", "approved"}
    /\ isinstance(proj.val.user_budget, "int")
    /\ isinstance(proj.val.proposed_budget, "int")
    /\ isinstance(proj.val.tasks, "list")
    /\ \A k \in 1..Len(proj.val.tasks.val) : SchemaTask(proj.val.tasks.val[k])

SchemaList(list) ==
    isinstance(list, "list") /\ \A i \in 1..Len(list.val) : SchemaProject(list.val[i])

\* C10: a project list of the data model, saved by save_project_data and
\* loaded by load_project_data, is the list that was saved: same length,
\* same order, every field of every project and task equal.
C10_RoundTrip ==
    SchemaList(projects) =>
        load_project_data(save_project_data(projects)) = Return(projects)

\* The file holds what an action saved: a list of the data model with a
\* task that has a due date and a task that has none, and loads as it.
C10_SavedBoard ==
    /\ SchemaList(projects)
    /\ file = save_project_data(projects)
    /\ load_project_data(file) = Return(projects)
    /\ \E ik \in AllTasks : TaskAt(ik).val.due_date = PyNone
    /\ \E ik \in AllTasks : TaskAt(ik).val.due_date /= PyNone

(***************************************************************************)
(* Properties of the session start and of the project file                 *)
(***************************************************************************)
\* The file is there and holds the text of one JSON value.
ValidJson(f) ==
    /\ f.exists
    /\ read(f).raised = ""
    /\ json_loads(read(f).value).ok

\* C11: when the project file does not exist, and when it exists but is not
\* valid JSON, load_project_data returns the empty list and does not raise
\* (the load writes nothing, so the file is as it was).
C11_LoadReturnsEmpty ==
    ~ValidJson(file) => load_project_data(file) = Return(PyList(<<>>))

\* The first run of a session found a project file whose bytes are not
\* text: the load raised, the run ended there, and the session has no
\* project list.
C11_LoadRaised ==
    /\ file = UndecodableFile
    /\ load_project_data(file) = Raise("UnicodeDecodeError")
    /\ last.error = "UnicodeDecodeError"
    /\ ~IsSet(projects)

\* C12: in a session that started from a readable project file, after every
\* action the project file holds the project list of the session: loading
\* it gives the list in memory.
C12_FileHoldsList ==
    load_project_data(file) = Return(projects)

\* A project was approved, its team was saved, and a task of it was
\* assigned, dated and completed; the file is the list as written whole.
C12_SavedAfterEdits ==
    /\ Len(projects.val) = 1
    /\ projects.val[1].val.team = PyList(<< EmpId(1), EmpId(2) >>)
    /\ \E ik \in AllTasks :
          /\ TaskAt(ik).val.status = PyStr("Completed")
          /\ TaskAt(ik).val.due_date /= PyNone
          /\ TaskAt(ik).val.assignee_id = PyNone
    /\ file = save_project_data(projects)

\* The status of a project or draft (None when it has none)
StatusOf(proj) == DictGet(proj, "status", PyNone)

\* The projects of the list that have the id of proj
SameProject(list, proj) ==
    { j \in 1..Len(list.val) : list.val[j].val.id = proj.val.id }

\* C13: a project's status goes only from pending to approved: a draft has
\* status pending, a project that an action adds to the list has status
\* approved in the list that the action writes to the file, and no action
\* changes the status of a project that is in the list.
C13_PendingThenApproved ==
    [][ /\ Truthy(draft_project') => StatusOf(draft_project') = PyStr("pending")
        /\ \A i \in 1..Len(projects'.val) :
              LET proj == projects'.val[i] IN
              IF SameProject(projects, proj) = {}
              THEN /\ StatusOf(draft_project) = PyStr("pending")
                   /\ StatusOf(proj) = PyStr("approved")
                   /\ file' = save_project_data(projects')
              ELSE \A j \in SameProject(projects, proj) :
                      StatusOf(projects.val[j]) = StatusOf(proj) ]_vars

\* The answer to Generate held the status approved; the draft made of it
\* was pending, it was approved, and its team and tasks were changed since.
C13_ApprovedAndEdited ==
    /\ Len(projects.val) = 1
    /\ StatusOf(projects.val[1]) = PyStr("approved")
    /\ projects.val[1].val.team = PyList(<< EmpId(1), EmpId(2) >>)
    /\ Len(TasksOf(projects.val[1])) = 1
    /\ Truthy(draft_project)
    /\ StatusOf(draft_project) = PyStr("pending")

\* C14: with two sessions that loaded the project file at their start, a
\* save of one session is overwritten by the next save of the other: every
\* step that writes the file leaves in it the list of the session that
\* wrote, whatever the other session had saved, and reports no error.
C14_LastWriterWins ==
    [][ file' /= file =>
          /\ load_project_data(file') = Return(projects')
          /\ last'.error = "" ]_vars

\* The other session completed the task and set its due date, and saved;
\* this session then saved its own list, in which the task is still to do
\* and has no date: the file holds this list and the other's change is gone.
C14_LostUpdate ==
    /\ IsSet(peer.state.projects)
    /\ Len(peer.state.projects.val) = 1 /\ Len(projects.val) = 1
    /\ LET theirs == TasksOf(peer.state.projects.val[1])
           mine == TasksOf(projects.val[1]) IN
       /\ Len(theirs) = 1 /\ Len(mine) = 1
       /\ theirs[1].val.status = PyStr("Completed")
       /\ theirs[1].val.due_date /= PyNone
       /\ mine[1].val.status = PyStr("In Progress")
       /\ mine[1].val.due_date = PyNone
    /\ load_project_data(file) = Return(projects)
    /\ last.error = ""

\* C15: when the roster file is missing at the start of a session, no later
\* run of the script in the session gets past the initialization: a session
\* with the empty roster of the failed load never has its tabs.
C15_StoppedForGood ==
    employees = PyList(<<>>) => ~Initialized

\* The roster file was missing in the first run; a later run went on to the
\* tabs, a task was started there and the task suggester sent its request
\* with the empty roster.
C15_WorkOnEmptyRoster ==
    /\ employees = PyList(<<>>)
    /\ Initialized
    /\ \E ik \in AllTasks : TaskAt(ik).val.status = PyStr("In Progress")
    /\ last.posted

(***************************************************************************)
(* Properties of a server without an API key                               *)
(***************************************************************************)
\* The step reports the error, has sent no request, and leaves the project
\* list, the draft and the project file as they were.
RefusedUnsent(error) ==
    /\ FailureReported
    /\ last'.error = error
    /\ ~last'.posted

\* Every control of the Projects tab that does not call the LLM can be used.
BoardControlsWork ==
    (DetailShown /\ CardIndexes /= {}) =>
        /\ ENABLED (\E k \in CardIndexes, button \in Buttons : TaskStatusButton(k, button))
        /\ ENABLED (\E k \in CardIndexes, id \in StoreAssignees \cup {EmpId(2)} :
                        AssignTask(k, id))
        /\ ENABLED (\E k \in CardIndexes, d \in {"2025-08-01", "2025-08-02"} :
                        SetDueDate(k, d))
        /\ ENABLED (\E k \in CardIndexes : DeleteTaskButton(k))
        /\ ENABLED (\E ids \in NoKeyTeams : SaveTeam(ids))
        /\ ENABLED DeleteProject

\* C16: when no API key is configured, generate_project,
\* generate_and_assign_tasks and modify_tasks_with_llm fail before a request
\* is sent, whatever the endpoint would have answered; the project list,
\* the draft and the file are unchanged; and the status, assignment, due
\* date, delete and Save Team controls can still be used.
C16_NoKeyNoRequest ==
    /\ [][ ~Truthy(API_KEY) =>
            /\ \A resp \in NoKeyGenerateReplies :
                  GenerateProjectDraft(Brief, 6000, resp)
                      => RefusedUnsent("Failed to generate project")
            /\ \A resp \in NoKeySuggestReplies :
                  SuggestTasks(resp) => RefusedUnsent("Failed to get suggestions")
            /\ \A i \in 1..Len(projects.val), resp \in NoKeyExecuteReplies :
                  ExecuteCommand(i, Command, resp) => RefusedUnsent("Failed to modify tasks")
          ]_vars
    /\ [](~Truthy(API_KEY) => BoardControlsWork)

\* Without a key, a command of the assistant was refused unsent, after the
\* team was saved and the task was assigned, dated and completed.
C16_BoardUsedWithoutKey ==
    /\ ~Truthy(API_KEY)
    /\ last.error = "Failed to modify tasks"
    /\ ~last.posted
    /\ Len(projects.val) = 1
    /\ projects.val[1].val.team = PyList(<< EmpId(2) >>)
    /\ \E ik \in AllTasks :
          /\ TaskAt(ik).val.status = PyStr("Completed")
          /\ TaskAt(ik).val.assignee_id = EmpId(2)
          /\ TaskAt(ik).val.due_date /= PyNone

(***************************************************************************)
(* Properties of the tasks' ids and assignees                              *)
(***************************************************************************)
\* C17: in every reachable state no two tasks of one project have the same
\* id, whether Suggest or Execute Command created them.
C17_TaskIdsUnique ==
    \A ik1, ik2 \in AllTasks :
        (/\ ik1[1] = ik2[1]
         /\ isinstance(TaskAt(ik1), "dict") /\ isinstance(TaskAt(ik2), "dict")
         /\ HasKey(TaskAt(ik1), "id") /\ HasKey(TaskAt(ik2), "id")
         /\ TaskAt(ik1).val.id = TaskAt(ik2).val.id)
        => ik1 = ik2

\* A command of the assistant was answered with two tasks of one id; the
\* list was accepted, and the project and the file hold both.
C17_TwoTasksOneId ==
    /\ \E i \in 1..Len(projects.val) :
          LET tasks == TasksOf(projects.val[i]) IN
          /\ Len(tasks) = 2
          /\ isinstance(tasks[1], "dict") /\ isinstance(tasks[2], "dict")
          /\ tasks[1].val.id = tasks[2].val.id
          /\ tasks[1].val.status /= tasks[2].val.status
    /\ file = save_project_data(projects)
    /\ last.error = ""

\* The ids of the roster
RosterIds == { employees.val[j].val.id : j \in 1..Len(employees.val) }

\* The ids the team of a project names (an entry is an id or an object
\* with an id)
TeamIds(proj) ==
    LET team == DictGet(proj, "team", PyList(<<>>)).val IN
    { IF isinstance(team[j], "dict") THEN team[j].val.id ELSE team[j] : j \in 1..Len(team) }

\* What the user may try to pick in "Assign to:"
PickedAssignees == { EmpId(1), EmpId(2), EmpId(3), GhostId, PyStr("unassigned") }

\* C18: the "Assign to:" control sets a task's assignee_id only to the id
\* of an employee who is in the current team of the task's project and in
\* the roster, or to None; "unassigned" is stored as None, never as the
\* string.
C18_AssigneeFromTeam ==
    [][ \A k \in CardIndexes, id \in PickedAssignees :
          AssignTask(k, id) =>
              LET proj == projects.val[proj_idx]
                  assigned == TasksOf(projects'.val[proj_idx])[k].val.assignee_id IN
              /\ assigned /= PyStr("unassigned")
              /\ assigned = IF id = PyStr("unassigned") THEN PyNone ELSE id
              /\ \/ assigned = PyNone
                 \/ assigned \in TeamIds(proj) \cap RosterIds ]_vars

\* The team was cut down to one employee and the task, which was another
\* employee's, was given to the one who is left.
C18_AssignedWithinTeam ==
    /\ DetailShown
    /\ TeamIds(projects.val[proj_idx]) = { EmpId(2) }
    /\ \E k \in CardIndexes :
          TasksOf(projects.val[proj_idx])[k].val.assignee_id = EmpId(2)
    /\ file = save_project_data(projects)

(***************************************************************************)
(* Properties of the progress bar                                          *)
(***************************************************************************)
\* The smaller of two numbers
Min(a, b) == IF a < b THEN a ELSE b

\* C19: for every team cost of 0 or more and every budget above 0 the value
\* of the progress bar is the integer part of
\* min(team_cost / user_budget * 100, 100), a number of 0..100; with a budget
\* of 0 nothing is divided and neither a message nor a bar is shown.
C19_BarIsIntegerPart ==
    view.state = "draft" =>
        IF DraftBudget > 0
        THEN /\ view.progress = Min((100 * view.team_cost) \div DraftBudget, 100)
             /\ view.progress \in 0..100
        ELSE view.progress = NoBar /\ view.message = ""

\* A team of a grade-A and a grade-D employee costs 5700, which is 57% of
\* the budget of 10000; the bar is drawn at 56.
C19_BarBelowPercentage ==
    /\ view.state = "draft"
    /\ view.team_cost = 5700
    /\ DraftBudget = 10000
    /\ view.progress = 56
    /\ view.message = "Within Budget"

(***************************************************************************)
(* Properties of the team edits                                            *)
(***************************************************************************)
\* The ids of the employees of a roster
IdsOf(roster) == { roster[j].val.id : j \in 1..Len(roster) }

\* C20: Save Team stores the ids selected, however many teams an employee
\* is on already, so an employee can be put on the teams of three projects;
\* while an employee is on three teams or more, every draft is generated
\* from a roster without the employee.
C20_UncheckedTeamEdits ==
    /\ [](DetailShown => \A ids \in TeamEdits : ENABLED SaveTeam(ids))
    /\ [](\A eid \in IdsOf(employees.val) :
              Memberships(eid) >= 3 => eid \notin IdsOf(eligible_employees))
    /\ [][ /\ \A ids \in TeamEdits :
                SaveTeam(ids) => projects'.val[proj_idx].val.team = PyList(ids)
           /\ \A resp \in TeamsReplies :
                GenerateProjectDraft(Brief, 6000, resp) /\ last'.posted =>
                    \A eid \in IdsOf(employees.val) :
                        Memberships(eid) >= 3 => eid \notin IdsOf(last'.roster.val)
         ]_vars

\* The third employee was selected into the teams of all three projects,
\* and the draft generated afterwards was asked for with a roster that
\* does not have the employee.
C20_ThreeTeamsThenDraft ==
    /\ Memberships(EmpId(3)) = 3
    /\ last.posted
    /\ Truthy(draft_project)
    /\ EmpId(3) \notin IdsOf(last.roster.val)
    /\ EmpId(1) \in IdsOf(last.roster.val)


(***************************************************************************)
(* Properties of what an action leaves unchanged                           *)
(***************************************************************************)
\* Project i is in the new list what it was, but for the fields named.
SameProjectBut(i, fields) ==
    LET before == projects.val[i]
        after == projects'.val[i] IN
    /\ isinstance(after, "dict")
    /\ DOMAIN after.val \cup fields = DOMAIN before.val \cup fields
    /\ \A key \in DOMAIN before.val \ fields : after.val[key] = before.val[key]

\* The new list has the projects of the old one in their order, each what
\* it was, but for the fields named of project i.
OnlyProjectChanged(i, fields) ==
    /\ Len(projects'.val) = Len(projects.val)
    /\ \A j \in 1..Len(projects.val) : j /= i => projects'.val[j] = projects.val[j]
    /\ SameProjectBut(i, fields)

\* The assignees of the tasks of a project, in task order
AssigneesOf(proj) ==
    [k \in 1..Len(TasksOf(proj)) |-> DictGet(TasksOf(proj)[k], "assignee_id", PyNone)]

\* C21: Save Team changes only the team field of the selected project: the
\* team becomes the selection; the project's other fields, its tasks and
\* the assignee_id of every task, and all other projects are what they
\* were, whether or not the assignee is still on the team.
C21_SaveTeamOnlyTeam ==
    [][ \A ids \in NoKeyTeams :
          SaveTeam(ids) =>
              /\ OnlyProjectChanged(proj_idx, {"team"})
              /\ projects'.val[proj_idx].val.team = PyList(ids)
              /\ TasksOf(projects'.val[proj_idx]) = TasksOf(projects.val[proj_idx])
              /\ AssigneesOf(projects'.val[proj_idx]) = AssigneesOf(projects.val[proj_idx])
              /\ file' = save_project_data(projects')
              /\ UNCHANGED << draft_project, selected_project_id >> ]_vars

\* The first employee was taken off the team of the first project and the
\* team was saved: the project's first task is still the first employee's,
\* and the second project is what the file held at the start.
C21_AssigneeOffTheTeam ==
    /\ Len(projects.val) = 2
    /\ DetailShown /\ proj_idx = 1
    /\ TeamIds(projects.val[1]) = { EmpId(2) }
    /\ Len(TasksOf(projects.val[1])) = 2
    /\ TasksOf(projects.val[1])[1].val.assignee_id = EmpId(1)
    /\ EmpId(1) \notin assignee_options(projects.val[1])
    /\ projects.val[2] = load_project_data(FrameFile).value.val[2]
    /\ file = save_project_data(projects)


(***************************************************************************)
(* Properties of the task suggester                                        *)
(***************************************************************************)
\* The value an answer holds: the JSON value of the text of its first
\* candidate, or nothing.
AnswerOf(resp) ==
    IF resp.status = "ok" /\ resp.candidates /= <<>>
    THEN json_loads(resp.candidates[1])
    ELSE [ok |-> FALSE]

\* The answer is an array whose every element is an object with both
\* description and assignee_id.
SuggestionArray(resp) ==
    /\ AnswerOf(resp).ok
    /\ isinstance(AnswerOf(resp).val, "list")
    /\ \A n \in 1..Len(AnswerOf(resp).val.val) :
          LET item == AnswerOf(resp).val.val[n] IN
          /\ isinstance(item, "dict")
          /\ {"description", "assignee_id"} \subseteq DOMAIN item.val

\* The ids of the tasks of a project list
TaskIdsOf(list) ==
    { TaskListsJoined(list)[n].val.id : n \in 1..Len(TaskListsJoined(list)) }

\* C22: a successful Suggest & Auto-Assign Tasks keeps the tasks the project
\* has as a prefix and appends, in the returned order, one task for each
\* returned item: a fresh id, status "To Do", due_date None, and the item's
\* description and assignee_id; nothing else of the list changes and the
\* list is written.  An answer is accepted only if it is an array whose
\* every element is an object with description and assignee_id; any other
\* answer is an error, and an empty array is none: both leave the list and
\* the file as they were.
C22_SuggestAppends ==
    [][ \A resp \in FrameSuggestReplies :
          SuggestTasks(resp) =>
              LET old == TasksOf(projects.val[proj_idx])
                  new == TasksOf(projects'.val[proj_idx]) IN
              IF SuggestionArray(resp) /\ AnswerOf(resp).val.val /= <<>>
              THEN LET items == AnswerOf(resp).val.val IN
                   /\ last'.error = ""
                   /\ OnlyProjectChanged(proj_idx, {"tasks"})
                   /\ Len(new) = Len(old) + Len(items)
                   /\ SubSeq(new, 1, Len(old)) = old
                   /\ \A n \in 1..Len(items) :
                         LET task == new[Len(old) + n] IN
                         /\ DOMAIN task.val =
                               {"id", "description", "status", "assignee_id", "due_date"}
                         /\ task.val.description = items[n].val.description
                         /\ task.val.assignee_id = items[n].val.assignee_id
                         /\ task.val.status = PyStr("To Do")
                         /\ task.val.due_date = PyNone
                         /\ isinstance(task.val.id, "str")
                         /\ task.val.id \notin TaskIdsOf(projects.val)
                         /\ \A m \in 1..Len(items) :
                               new[Len(old) + m].val.id = task.val.id => m = n
                   /\ file' = save_project_data(projects')
              ELSE /\ UNCHANGED << projects, file >>
                   /\ last'.error = "" <=> SuggestionArray(resp) ]_vars

\* Two tasks were suggested for the first project, which had two: they are
\* its third and fourth task, in the order of the answer, and the first two
\* are what the file held at the start.
C22_TwoAppended ==
    /\ Len(projects.val) = 2
    /\ LET tasks == TasksOf(projects.val[1]) IN
       /\ Len(tasks) = 4
       /\ SubSeq(tasks, 1, 2) = TasksOf(load_project_data(FrameFile).value.val[1])
       /\ tasks[3].val.description = PyStr("3. Write the tests")
       /\ tasks[3].val.assignee_id = EmpId(2)
       /\ tasks[4].val.description = PyStr("4. Deploy")
       /\ tasks[4].val.assignee_id = PyNone
       /\ tasks[3].val.id /= tasks[4].val.id
    /\ file = save_project_data(projects)
    /\ last.posted /\ last.error = ""


(***************************************************************************)
(* Properties of the assistant's commands                                  *)
(***************************************************************************)
\* C23: a successful Execute Command makes the returned list the task list
\* of the project chosen in the selectbox and changes nothing else: the
\* project's other fields, every other project, the order of the projects,
\* the draft and the project selected on the Projects tab are what they
\* were; the new list is written.
C23_ExecuteReplacesTasks ==
    [][ \A i \in 1..Len(projects.val), resp \in FrameExecuteReplies :
          (ExecuteCommand(i, Command, resp) /\ last'.error = "") =>
              /\ AnswerOf(resp).ok
              /\ OnlyProjectChanged(i, {"tasks"})
              /\ projects'.val[i].val.tasks = AnswerOf(resp).val
              /\ file' = save_project_data(projects')
              /\ UNCHANGED << draft_project, selected_project_id >> ]_vars

\* With a draft on the New Project tab and the first project selected, a
\* command on the second project was answered with two tasks: they are its
\* tasks, and the first project is what the file held at the start.
C23_SecondProjectRewritten ==
    /\ Len(projects.val) = 2
    /\ Truthy(draft_project)
    /\ DetailShown /\ proj_idx = 1
    /\ projects.val[1] = load_project_data(FrameFile).value.val[1]
    /\ TasksOf(projects.val[2]) =
          << Task("t1", "In Progress", EmpId(1)), Task("t2", "To Do", PyNone) >>
    /\ projects.val[2].val.team = PyList(<< EmpId(3) >>)
    /\ file = save_project_data(projects)
    /\ last.posted /\ last.error = ""


(***************************************************************************)
(* Properties of the life of a project                                     *)
(***************************************************************************)
\* The ids of the projects of a list
ProjectIds(list) == { list.val[j].val.id : j \in 1..Len(list.val) }

\* C24: Delete Project removes exactly the selected project: the new list
\* is the old one without the project that has the selected id, the other
\* projects are what they were and in their order, the file holds the new
\* list, and no project is selected.
C24_DeleteRemovesSelected ==
    [][ DeleteProject =>
          /\ selected_project_id \in ProjectIds(projects)
          /\ selected_project_id \notin ProjectIds(projects')
          /\ Len(projects'.val) = Len(projects.val) - 1
          /\ \E i \in 1..Len(projects.val) :
                /\ projects.val[i].val.id = selected_project_id
                /\ \A j \in 1..(i - 1) : projects'.val[j] = projects.val[j]
                /\ \A j \in (i + 1)..Len(projects.val) : projects'.val[j - 1] = projects.val[j]
          /\ load_project_data(file') = Return(projects')
          /\ selected_project_id' = PyNone
          /\ UNCHANGED draft_project ]_vars

\* The second of three projects was deleted: the list and the file hold the
\* first project of the file found at the start and the project approved
\* since, in this order, and no project is selected.
C24_MiddleDeleted ==
    /\ Len(projects.val) = 2
    /\ projects.val[1] = load_project_data(PortfolioFile).value.val[1]
    /\ projects.val[2].val.id = uuid4(1)
    /\ load_project_data(PortfolioFile).value.val[2].val.id \notin ProjectIds(projects)
    /\ selected_project_id = PyNone
    /\ file = save_project_data(projects)


\* C25: a project enters the list and the file only by the approval of a
\* draft.  Approve appends the draft, with the status approved, as the last
\* project, writes the list and clears the draft, so that there is no
\* draft to approve a second time and no two projects of the list have one
\* id; Discard clears the draft and changes neither the list nor the file;
\* Generate changes neither the list nor the file.
C25_OnlyApprovalAdds ==
    /\ [][ /\ ApproveProject =>
                LET added == projects'.val[Len(projects'.val)] IN
                /\ Truthy(draft_project)
                /\ SubSeq(projects'.val, 1, Len(projects.val)) = projects.val
                /\ Len(projects'.val) = Len(projects.val) + 1
                /\ DOMAIN added.val = DOMAIN draft_project.val
                /\ \A key \in DOMAIN draft_project.val \ {"status"} :
                      added.val[key] = draft_project.val[key]
                /\ added.val.status = PyStr("approved")
                /\ load_project_data(file') = Return(projects')
                /\ draft_project' = PyNone
           /\ DiscardDraft =>
                /\ draft_project' = PyNone
                /\ UNCHANGED << projects, file >>
           /\ \A resp \in PortfolioReplies :
                GenerateProjectDraft(Brief, 6000, resp) => UNCHANGED << projects, file >>
           /\ (ProjectIds(projects') \ ProjectIds(projects) /= {}) => ApproveProject
           /\ (file' /= file /\ Len(projects'.val) > Len(projects.val)) => ApproveProject
         ]_vars
    /\ [](~Truthy(draft_project) => ~ENABLED ApproveProject)
    /\ [](\A i, j \in 1..Len(projects.val) :
              projects.val[i].val.id = projects.val[j].val.id => i = j)

\* A first draft was discarded or replaced, and the second draft was
\* approved: it is the third and last project of the list and of the
\* file, and there is no draft.
C25_SecondDraftApproved ==
    /\ Len(projects.val) = 3
    /\ projects.val[3].val.id = uuid4(2)
    /\ projects.val[3].val.status = PyStr("approved")
    /\ SubSeq(projects.val, 1, 2) = load_project_data(PortfolioFile).value.val
    /\ draft_project = PyNone
    /\ load_project_data(file) = Return(projects)


(***************************************************************************)
(* Properties of the keys of a draft                                       *)
(***************************************************************************)
\* The keys Generate Project Draft sets
HandlerKeys == {"id", "status", "tasks", "user_budget"}

\* C26: whatever keys the object of the answer holds, the draft stored has
\* a freshly generated id, the status pending, an empty task list and the
\* budget the user entered; the values of the answer for these four keys
\* are overwritten, and its other keys are kept.
C26_HandlerKeysWin ==
    /\ [][ \A user_budget \in KeysBudgets, resp \in KeysReplies :
             (GenerateProjectDraft(Brief, user_budget, resp) /\ last'.error = "") =>
                 LET answer == AnswerOf(resp).val IN
                 /\ isinstance(answer, "dict")
                 /\ DOMAIN draft_project'.val = DOMAIN answer.val \cup HandlerKeys
                 /\ \A key \in DOMAIN answer.val \ HandlerKeys :
                       draft_project'.val[key] = answer.val[key]
                 /\ draft_project'.val.id = uuid4(uuid_count')
                 /\ uuid_count' > uuid_count
                 /\ draft_project'.val.id \notin ProjectIds(projects)
                 /\ Truthy(draft_project) => draft_project'.val.id /= draft_project.val.id
                 /\ HasKey(answer, "id") => draft_project'.val.id /= answer.val.id
                 /\ draft_project'.val.status = PyStr("pending")
                 /\ draft_project'.val.tasks = PyList(<<>>)
                 /\ draft_project'.val.user_budget = PyInt(user_budget) ]_vars
    /\ [](Truthy(draft_project) =>
             /\ isinstance(draft_project.val.id, "str")
             /\ draft_project.val.id \notin ProjectIds(projects)
             /\ draft_project.val.status = PyStr("pending")
             /\ draft_project.val.tasks = PyList(<<>>)
             /\ draft_project.val.user_budget.val \in KeysBudgets)

\* The answer held the id of a project of the list, the status approved, a
\* task and a budget of 1; the user had entered 5000: the draft has an id
\* of its own, the status pending, no task and the budget 5000, and the
\* team of the answer.
C26_AnswerOverridden ==
    /\ Truthy(draft_project)
    /\ PyStr("uuid-a") \in ProjectIds(projects)
    /\ draft_project.val.team = PyList(<< EmpId(2), EmpId(3) >>)
    /\ draft_project.val.id = uuid4(uuid_count)
    /\ draft_project.val.status = PyStr("pending")
    /\ draft_project.val.tasks = PyList(<<>>)
    /\ draft_project.val.user_budget = PyInt(5000)
    /\ last.posted /\ last.error = ""


\* C27: in a single session the selected project id is None or the id of a
\* project of the session's list, in every state: a step that changes it
\* sets it to the id of a project of the list or to None, and Delete
\* Project sets it to None.
C27_SelectedIsListed ==
    /\ [](selected_project_id = PyNone \/ selected_project_id \in ProjectIds(projects))
    /\ [][ /\ selected_project_id' /= selected_project_id =>
                \/ selected_project_id' = PyNone
                \/ selected_project_id' \in ProjectIds(projects)
           /\ DeleteProject => selected_project_id' = PyNone ]_vars

\* The first project was selected and deleted, and the project that is now
\* the only one of the list was selected after it.
C27_SelectedAfterDelete ==
    /\ Len(projects.val) = 1
    /\ projects.val[1] = load_project_data(PortfolioFile).value.val[2]
    /\ selected_project_id = projects.val[1].val.id
    /\ file = save_project_data(projects)


\* What the user may enter as a command
Commands == { Command, "add task: Client meeting due tomorrow" }

\* The answer that is an empty JSON array
EmptyArray == Reply(JsonText(PyList(<<>>)))

\* C28: an empty JSON array in answer to Execute Command passes the
\* validation: whatever the command and however many tasks the project
\* has, no error is reported, the project's task list becomes empty,
\* nothing else of the list changes, and the list is written to the file.
C28_EmptyArrayClearsTasks ==
    [][ \A i \in 1..Len(projects.val), command \in Commands :
          ExecuteCommand(i, command, EmptyArray) =>
              /\ last'.posted
              /\ last'.error = ""
              /\ projects'.val[i].val.tasks = PyList(<<>>)
              /\ OnlyProjectChanged(i, {"tasks"})
              /\ load_project_data(file') = Return(projects') ]_vars

\* With no project selected on the Projects tab, a command on the first
\* project, which had two tasks, was answered with an empty array: the
\* project has no task, in the list and in the file.
C28_BoardEmptied ==
    /\ selected_project_id = PyNone
    /\ Len(projects.val) = 2
    /\ projects.val[1].val.tasks = PyList(<<>>)
    /\ Len(TasksOf(load_project_data(FrameFile).value.val[1])) = 2
    /\ projects.val[2] = load_project_data(FrameFile).value.val[2]
    /\ load_project_data(file) = Return(projects)
    /\ last.posted /\ last.error = ""


(***************************************************************************)
(* Properties of Delete Task                                               *)
(***************************************************************************)
\* C29: Delete Task on a card removes exactly one task, the one of the
\* card, from the project on display: the other tasks of the project stay
\* in their order with their fields, and the other projects and the other
\* fields of the project are what they were.
C29_DeleteTaskRemovesOne ==
    [][ \A k \in CardIndexes :
          DeleteTaskButton(k) =>
              LET old == TasksOf(projects.val[proj_idx])
                  new == TasksOf(projects'.val[proj_idx]) IN
              /\ new = SubSeq(old, 1, k - 1) \o SubSeq(old, k + 1, Len(old))
              /\ OnlyProjectChanged(proj_idx, {"tasks"}) ]_vars

\* The project on display has two tasks of one id, as a command of the
\* assistant left them; the card of the first is rendered with its Delete
\* Task button, and delete_task with the card's arguments leaves the
\* project without any task.
C29_DeleteTakesBoth ==
    /\ DetailShown
    /\ LET proj == projects.val[proj_idx]
           tasks == TasksOf(proj) IN
       /\ Len(tasks) = 2
       /\ BoardFilterOK(tasks)
       /\ TaskId(tasks[1]) = TaskId(tasks[2])
       /\ ExpanderReached(tasks, 1)
       /\ ENABLED DeleteTaskButton(1)
       /\ TasksOf(delete_task(proj.val.id, tasks[1].val.id).val[proj_idx]) = <<>>


(***************************************************************************)
(* Properties of a session on a project file that is not valid JSON        *)
(***************************************************************************)
\* The project file is there and is not valid JSON: no action has written
\* it since the session found it.
FileStillInvalid == file.exists /\ ~ValidJson(file)

\* C30: when a session starts on a project file that exists and is not
\* valid JSON, the run goes on to the tabs with an empty project list,
\* with no error of the load; the file stays as it is while the list does
\* not change; the first action that changes the list writes the file
\* with that list only, and reports no error either.
C30_InvalidFileReplaced ==
    /\ [](FileStillInvalid => (Initialized /\ projects = PyList(<<>>)))
    /\ [][ FileStillInvalid =>
              IF projects' /= projects
              THEN /\ file' = save_project_data(projects')
                   /\ load_project_data(file') = Return(projects')
                   /\ last'.error = ""
              ELSE file' = file ]_vars

\* The session found a project file whose bytes are not text: the roster
\* was loaded, the load of the projects raised, the session has no project
\* list, the file is as it was, and the next run of the script ends at the
\* load again.
C30_SessionWithoutList ==
    /\ file = UndecodableFile
    /\ FileStillInvalid
    /\ IsSet(employees)
    /\ ~IsSet(projects)
    /\ ~Initialized
    /\ last.error = "UnicodeDecodeError"
    /\ initialize(session_state, NoRosterFile, file).ended = "UnicodeDecodeError"
====
